---- MODULE Spec2Model ----
(***************************************************************************)
(* Verification model of zephyr-ci: the JobScheduler (server package), the *)
(* store operations it calls, and the WarmPool (vm package).               *)
(*                                                                         *)
(* The scheduler runs on a single-threaded event loop.  A handler runs to  *)
(* its first await; a continuation that awaits an already settled promise  *)
(* is a microtask, and the microtask queue is drained (in FIFO order)      *)
(* before the next timer or I/O callback runs.  microQ is that queue.      *)
(***************************************************************************)
EXTENDS FiniteSets, Integers, Sequences, TLC

(***************************************************************************)
(* Bounds                                                                  *)
(***************************************************************************)
MaxConcurrent == 2   \* options.maxConcurrent of the scheduler under test
MaxPQ == 2           \* processQueue invocations suspended at the same time
MinIdle == 1         \* the smallest options.minIdle of the pools under test
MaxIdle == 2         \* options.maxIdle
MaxTotal == 2        \* options.maxTotal
MaxCreated == 3      \* VMs the pool creates in one behaviour (nextIndex)
MaxNow == 1          \* clock readings after the first

(***************************************************************************)
(* Inputs: the configuration file and the trigger requests                 *)
(***************************************************************************)
\* an optional value is a sequence of length 0 (absent) or 1 (present)
NoMatrix == <<>>

\* the pipelines of the config file: the diamond A -> {B,C} -> D and a
\* one-job pipeline with a 2-value matrix
Pipelines ==
  << [name |-> "ci",
      jobs |-> << [name |-> "A", dependsOn |-> {}, matrix |-> NoMatrix],
                  [name |-> "B", dependsOn |-> {"A"}, matrix |-> NoMatrix],
                  [name |-> "C", dependsOn |-> {"A"}, matrix |-> NoMatrix],
                  [name |-> "D", dependsOn |-> {"B", "C"}, matrix |-> NoMatrix] >>],
     [name |-> "lint",
      jobs |-> << [name |-> "L", dependsOn |-> {},
                   matrix |-> << [values |-> << <<"os", <<"ubuntu", "alpine">> >> >>] >>] >>] >>

Trigger(id, projectId, pipelineName, configPath) ==
  [id |-> id, projectId |-> projectId, pipelineName |-> pipelineName,
   configPath |-> configPath]

\* the calls of queuePipelineRun a behaviour may see: the diamond; two
\* one-job runs, the second possibly for a project that does not exist; a
\* pipeline that is not in the config and a config file that is missing
Scenarios ==
  { { Trigger("r1", "p1", "ci", "zephyr.config.ts") },
    { Trigger("r1", "p1", "lint", "zephyr.config.ts"),
      Trigger("r2", "p1", "lint", "zephyr.config.ts"),
      Trigger("r2", "ghost", "lint", "zephyr.config.ts") },
    { Trigger("r1", "p1", "nope", "zephyr.config.ts"),
      Trigger("r2", "p1", "lint", "missing.ts") } }

\* projects table: p1 exists and has a config path, ghost does not exist
Projects == [p1 |-> [config_path |-> "zephyr.config.ts"]]

Null == "null"

VARIABLES
  triggers,      \* the queuePipelineRun calls the callers make in this behaviour
  running,       \* JobScheduler.running
  pollTimer,     \* JobScheduler.pollTimer is set
  activeJobs,    \* JobScheduler.activeJobs: job id -> promise (execution id)
  execs,         \* executeJob calls suspended in loadConfig/runJob: id -> job id
  microQ,        \* microtask queue: suspended processQueue loops, promise reactions
  callerInChain, \* the code that called start()/stop() still runs in this drain
  stopWaits,     \* stop() calls suspended in Promise.all: sets of execution ids
  queueOps,      \* queuePipelineRun calls: run id -> request and position
  runs,          \* store: pipeline_runs table
  jobs,          \* store: jobs table, in insertion order
  pool,          \* the WarmPool object, its suspended calls and its hypervisor
  dag,           \* the DAG engine: the nodes given to buildDag and their status
  jobRun,        \* a call of runJob: its steps, its locals and its position
  command,       \* a call of runCommand: the process, its pipes, the timer, the output
  expansion,     \* a call of expandMatrix: the job and the instances returned
  server,        \* ZephyrServer: WebSocket clients, what they received, the jobs' rows
  cli            \* a call of the CLI run command: its options, its locals, its exit

schedVars == <<triggers, running, pollTimer, activeJobs, execs, microQ,
               callerInChain, stopWaits, queueOps, runs, jobs>>

\* what the actions of one component leave alone
notSched == <<pool, dag, jobRun, command, expansion, server, cli>>

notPool == <<schedVars, dag, jobRun, command, expansion, server, cli>>

notDag == <<schedVars, pool, jobRun, command, expansion, server, cli>>

notRunner == <<schedVars, pool, dag, command, expansion, server, cli>>

notCommand == <<schedVars, pool, dag, jobRun, expansion, server, cli>>

notMatrix == <<schedVars, pool, dag, jobRun, command, server, cli>>

notServer == <<schedVars, pool, dag, jobRun, command, expansion, cli>>

notCli == <<schedVars, pool, dag, jobRun, command, expansion, server>>

vars == <<schedVars, pool, dag, jobRun, command, expansion, server, cli>>

(***************************************************************************)
(* Store (ZephyrDatabase)                                                  *)
(***************************************************************************)
Terminal == {"success", "failure", "skipped", "cancelled"}

createPipelineRun(db, id, projectId, pipelineName) ==
  [r \in DOMAIN db \cup {id} |->
     IF r = id
     THEN [project_id |-> projectId, pipeline_name |-> pipelineName,
           status |-> "pending", finishedAt |-> Null]
     ELSE db[r]]

\* params.dependsOn is optional; a row created without it has none
createJob(tbl, id, pipelineRunId, name, dependsOn) ==
  Append(tbl, [id |-> id, pipeline_run_id |-> pipelineRunId, name |-> name,
               dependsOn |-> dependsOn, status |-> "pending"])

\* called by the scheduler without an expected prior status: unconditional
updateJobStatus(tbl, id, status) ==
  [i \in DOMAIN tbl |->
     IF tbl[i].id = id THEN [tbl[i] EXCEPT !.status = status] ELSE tbl[i]]

getJobsForPipelineRun(tbl, runId) ==
  SelectSeq(tbl, LAMBDA j : j.pipeline_run_id = runId)

getPendingJobs(tbl, limit) ==
  LET pending == SelectSeq(tbl, LAMBDA j : j.status = "pending")
  IN  SubSeq(pending, 1, IF Len(pending) < limit THEN Len(pending) ELSE limit)

getJob(tbl, id) == CHOOSE j \in {tbl[i] : i \in DOMAIN tbl} : j.id = id

\* getProject(id), as an optional value
getProject(id) == IF id \in DOMAIN Projects THEN <<Projects[id]>> ELSE <<>>

(***************************************************************************)
(* Config loader and matrix expansion                                      *)
(***************************************************************************)
\* file.exists() of loadConfig: loadConfig throws when it is false
configExists(path) == path = "zephyr.config.ts"

\* resolvePipelines(loadConfig(path).config, context) of an existing file
resolvePipelines(path) == Pipelines

\* pipelines.find((p) => p.name === name), as an optional value
findPipeline(pipelines, name) ==
  LET hits == SelectSeq(pipelines, LAMBDA p : p.name = name)
  IN  IF Len(hits) = 0 THEN <<>> ELSE <<hits[1]>>

\* An object is the sequence of its <<key, value>> properties in the order
\* Object.keys lists them: keys that are array indices first, then the other
\* keys in insertion order.  The objects here have at most one array index key.
IsArrayIndex(key) == key \in {"0", "1", "2"}

\* the object an object literal or Object.fromEntries makes of these entries
ObjectOf(entries) ==
  SelectSeq(entries, LAMBDA e : IsArrayIndex(e[1]))
    \o SelectSeq(entries, LAMBDA e : ~IsArrayIndex(e[1]))

\* obj[key], as an optional value
Get(obj, key) ==
  LET hits == SelectSeq(obj, LAMBDA e : e[1] = key)
  IN  IF Len(hits) = 0 THEN <<>> ELSE <<hits[1][2]>>

\* Object.assign(target, source)
RECURSIVE ObjectAssign(_, _)
ObjectAssign(target, source) ==
  IF Len(source) = 0 THEN target
  ELSE LET key == source[1][1]
           set == IF Get(target, key) = <<>>
                  THEN ObjectOf(Append(target, source[1]))
                  ELSE [i \in DOMAIN target |->
                          IF target[i][1] = key THEN source[1] ELSE target[i]]
       IN  ObjectAssign(set, Tail(source))

\* Object.keys(partial).every((key) => combo[key] === partial[key])
matchesEvery(combo, partial) ==
  \A i \in DOMAIN partial : Get(combo, partial[i][1]) = <<partial[i][2]>>

shouldExclude(combo, exclusions) ==
  \E i \in DOMAIN exclusions : matchesEvery(combo, exclusions[i])

RECURSIVE cartesianProduct(_)
cartesianProduct(declared) ==
  IF Len(declared) = 0 THEN << <<>> >>
  ELSE LET values == ObjectOf(declared)
           first == values[1][1]
           firstValues == values[1][2]
           rest == Tail(values)
           restProduct == cartesianProduct(rest)
           RECURSIVE outer(_)
           outer(k) ==
             IF k > Len(firstValues) THEN <<>>
             ELSE (IF Len(rest) = 0
                   THEN << << <<first, firstValues[k]>> >> >>
                   ELSE [m \in 1..Len(restProduct) |->
                           << <<first, firstValues[k]>> >> \o restProduct[m]])
                  \o outer(k + 1)
       IN  outer(1)

\* "Apply inclusions": the for loop over include
RECURSIVE applyInclusions(_, _, _)
applyInclusions(combinations, include, values) ==
  IF Len(include) = 0 THEN combinations
  ELSE LET inclusion == include[1]
           exists == \E i \in DOMAIN combinations : matchesEvery(combinations[i], inclusion)
           fullCombo ==
             [d \in DOMAIN values |->
                <<values[d][1],
                  IF Get(inclusion, values[d][1]) # <<>>
                  THEN Get(inclusion, values[d][1])[1]
                  ELSE values[d][2][1]>>]
       IN  applyInclusions(
             IF exists THEN combinations
             ELSE Append(combinations, ObjectAssign(fullCombo, inclusion)),
             Tail(include), values)

\* a matrix written without exclude or include has empty ones
generateCombinations(matrix) ==
  LET values == ObjectOf(matrix.values)
      exclude == IF "exclude" \in DOMAIN matrix THEN matrix.exclude ELSE <<>>
      include == IF "include" \in DOMAIN matrix THEN matrix.include ELSE <<>>
  IN  IF Len(values) = 0 THEN <<>>
      ELSE applyInclusions(
             SelectSeq(cartesianProduct(values), LAMBDA combo : ~shouldExclude(combo, exclude)),
             [i \in DOMAIN include |-> ObjectOf(include[i])], values)

RECURSIVE generateNameSuffix(_)
generateNameSuffix(combo) ==
  IF Len(combo) = 0 THEN ""
  ELSE combo[1][1] \o "=" \o combo[1][2]
       \o (IF Len(combo) > 1 THEN ", " ELSE "")
       \o generateNameSuffix(Tail(combo))

\* hasMatrix(job): a matrix with at least one dimension
hasMatrix(job) ==
  job.matrix # NoMatrix /\ Len(ObjectOf(job.matrix[1].values)) > 0

expandMatrix(job) ==
  IF job.matrix = NoMatrix
  THEN << [job |-> job, matrix |-> <<>>, instanceId |-> job.name,
             displayName |-> job.name] >>
  ELSE LET combinations == generateCombinations(job.matrix[1])
       IN  [k \in 1..Len(combinations) |->
              [job |-> job,
               matrix |-> << [index |-> k - 1, values |-> combinations[k],
                              nameSuffix |-> generateNameSuffix(combinations[k])] >>,
               instanceId |-> job.name \o "-" \o generateNameSuffix(combinations[k]),
               displayName |-> job.name \o " (" \o generateNameSuffix(combinations[k])
                                 \o ")"]]

RECURSIVE expandPipelineJobs(_)
expandPipelineJobs(jobDefs) ==
  IF Len(jobDefs) = 0 THEN <<>>
  ELSE expandMatrix(jobDefs[1]) \o expandPipelineJobs(Tail(jobDefs))

\* the matrix.values, exclusions and inclusions of the jobs given to
\* expandMatrix, as declared: none, one and two dimensions, two dimensions
\* declared in the other order, and a dimension whose name is a number
ValuesInputs ==
  { <<>>,
    << <<"os", <<"ubuntu", "alpine">> >> >>,
    << <<"os", <<"ubuntu", "alpine">> >>, <<"node", <<"18", "20">> >> >>,
    << <<"node", <<"18">> >>, <<"os", <<"ubuntu", "alpine">> >> >>,
    << <<"os", <<"ubuntu", "alpine">> >>, <<"2", <<"x", "y">> >> >> }

PartialInputs ==
  { <<>>,
    << <<"os", "alpine">> >>,
    << <<"os", "alpine">>, <<"node", "18">> >>,
    << <<"node", "20">> >>,
    << <<"os", "bsd">> >>,
    << <<"arch", "arm">> >> }

MaxPartials == 2     \* exclusions, and inclusions, of a matrix

PartialLists == UNION {[1 .. n -> PartialInputs] : n \in 0 .. MaxPartials}

MatrixJobs ==
  {[name |-> "test", dependsOn |-> {}, matrix |-> NoMatrix]}
    \cup {[name |-> "test", dependsOn |-> {}, matrix |-> << [values |-> v] >>] :
            v \in ValuesInputs}
    \cup {[name |-> "test", dependsOn |-> {},
           matrix |-> << [values |-> v, exclude |-> e, include |-> i] >>] :
            v \in ValuesInputs, e \in PartialLists, i \in PartialLists}

NewExpansion(job) == [job |-> job, pc |-> "call", result |-> <<>>]

NoExpansion == NewExpansion([name |-> "none", dependsOn |-> {}, matrix |-> NoMatrix])

\* expandMatrix(job) is called and returns
expandMatrixCall ==
  /\ expansion.pc = "call"
  /\ expansion.job.name # "none"
  /\ expansion' = [expansion EXCEPT !.pc = "returned", !.result = expandMatrix(expansion.job)]
  /\ UNCHANGED notMatrix

(***************************************************************************)
(* JobScheduler                                                            *)
(***************************************************************************)
Size(map) == Cardinality(DOMAIN map)

MapSet(map, key, value) ==
  [k \in DOMAIN map \cup {key} |-> IF k = key THEN value ELSE map[k]]

MapDelete(map, key) == [k \in DOMAIN map \ {key} |-> map[k]]

Values(map) == {map[k] : k \in DOMAIN map}

Ids(rows) == [i \in DOMAIN rows |-> rows[i].id]

Microtask(type, snapshot, i, canRun, exec, job) ==
  [type |-> type, snapshot |-> snapshot, i |-> i, canRun |-> canRun,
   exec |-> exec, job |-> job]

PQCount(q) == Len(SelectSeq(q, LAMBDA m : m.type = "pq"))

\* promises whose settlement or finally-callback is still to come
UsedExecs ==
  DOMAIN execs \cup Values(activeJobs) \cup {microQ[i].exec : i \in DOMAIN microQ}
  \cup UNION stopWaits

\* identity of the promise returned by a new executeJob(job) call
NewExec(jobId) ==
  LET used == {e \in UsedExecs : e[1] = jobId}
  IN  <<jobId, CHOOSE k \in 1..(Cardinality(used) + 1) :
                 <<jobId, k>> \notin used
                 /\ \A f \in 1..(k - 1) : <<jobId, f>> \in used>>

NoExec == <<"", 0>>

\* a readiness check that lets the last pending job of a run go first
canJobRunLastPending(db, tbl, jobId) ==
  LET job == getJob(tbl, jobId)
  IN  IF job.pipeline_run_id \notin DOMAIN db THEN FALSE
      ELSE LET allJobs == getJobsForPipelineRun(tbl, job.pipeline_run_id)
               pendingJobs == SelectSeq(allJobs, LAMBDA j : j.status = "pending")
           IN  Len(pendingJobs) > 0 /\ pendingJobs[Len(pendingJobs)].id = jobId

\* canJobRun(job): the job is the first pending job of its pipeline run
canJobRun(db, tbl, jobId) ==
  LET job == getJob(tbl, jobId)
  IN  IF job.pipeline_run_id \notin DOMAIN db THEN FALSE
      ELSE LET allJobs == getJobsForPipelineRun(tbl, job.pipeline_run_id)
               pendingJobs == SelectSeq(allJobs, LAMBDA j : j.status = "pending")
           IN  Len(pendingJobs) > 0 /\ pendingJobs[1].id = jobId

\* the for loop of processQueue from position i up to its next await: jobs
\* already in activeJobs are skipped, canJobRun is evaluated for the next one
\* and the loop is suspended on its result; <<>> when the loop is over
RECURSIVE loopToAwait(_, _, _, _, _)
loopToAwait(snapshot, i, active, db, tbl) ==
  IF i > Len(snapshot) THEN <<>>
  ELSE IF snapshot[i] \in DOMAIN active
       THEN loopToAwait(snapshot, i + 1, active, db, tbl)
       ELSE << Microtask("pq", snapshot, i, canJobRun(db, tbl, snapshot[i]),
                         NoExec, snapshot[i]) >>

\* processQueue with the fetch limit not reduced by the jobs already active
processQueueIgnoringActive(isRunning, active, db, tbl) ==
  IF ~isRunning THEN <<>>
  ELSE loopToAwait(Ids(getPendingJobs(tbl, MaxConcurrent)), 1, active, db, tbl)

\* processQueue() up to its first await; the result is the microtask it leaves
processQueue(isRunning, active, db, tbl) ==
  IF ~isRunning THEN <<>>
  ELSE IF Size(active) >= MaxConcurrent THEN <<>>
  ELSE LET availableSlots == MaxConcurrent - Size(active)
           pendingJobs == getPendingJobs(tbl, availableSlots)
       IN  loopToAwait(Ids(pendingJobs), 1, active, db, tbl)

\* the caller of the scheduler's methods can act at the start of a task, or
\* inside a microtask drain that its own call started
CallerCanAct == microQ = <<>> \/ callerInChain

\* a settled promise leaves every Promise.all that awaited it; a stop() whose
\* promises are all settled returns
Settle(waits, e) == {w \ {e} : w \in waits} \ {{}}

start ==
  /\ CallerCanAct
  /\ ~running
  /\ PQCount(microQ) < MaxPQ
  /\ running' = TRUE
  /\ pollTimer' = TRUE
  /\ microQ' = microQ \o processQueue(TRUE, activeJobs, runs, jobs)
  /\ callerInChain' = (microQ' # <<>>)
  /\ UNCHANGED <<notSched, triggers, activeJobs, execs, stopWaits, queueOps, runs, jobs>>

stop ==
  /\ CallerCanAct
  /\ running
  /\ running' = FALSE
  /\ pollTimer' = FALSE
  /\ LET unsettled == {e \in Values(activeJobs) :
                         e \in DOMAIN execs
                         \/ \E i \in DOMAIN microQ : microQ[i].exec = e}
     IN  stopWaits' = IF Size(activeJobs) > 0 /\ unsettled # {}
                      THEN stopWaits \cup {unsettled}
                      ELSE stopWaits
  /\ callerInChain' = (microQ # <<>>)
  /\ UNCHANGED <<notSched, triggers, activeJobs, execs, microQ, queueOps, runs, jobs>>

\* the timer callback of start()
tick ==
  /\ pollTimer
  /\ microQ = <<>>
  /\ microQ' = processQueue(running, activeJobs, runs, jobs)
  /\ callerInChain' = FALSE
  /\ UNCHANGED <<notSched, triggers, running, pollTimer, activeJobs, execs, stopWaits, queueOps,
                 runs, jobs>>

\* the loop of queuePipelineRun that creates one job row per jobDef
RECURSIVE createJobs(_, _, _)
createJobs(tbl, runId, jobDefs) ==
  IF Len(jobDefs) = 0 THEN tbl
  ELSE createJobs(createJob(tbl, runId \o "-" \o jobDefs[1].name, runId,
                            jobDefs[1].name, {}),
                  runId, Tail(jobDefs))

\* queuePipelineRun(run) up to its await of loadConfig
queuePipelineRun ==
  /\ CallerCanAct
  /\ \E run \in triggers :
       /\ run.id \notin DOMAIN queueOps
       /\ runs' = createPipelineRun(runs, run.id, run.projectId, run.pipelineName)
       /\ queueOps' = MapSet(queueOps, run.id,
                             [pipelineName |-> run.pipelineName,
                              configPath |-> run.configPath, pc |-> "loadConfig"])
  /\ callerInChain' = (microQ # <<>>)
  /\ UNCHANGED <<notSched, triggers, running, pollTimer, activeJobs, execs, microQ, stopWaits, jobs>>

\* queuePipelineRun(run) after loadConfig: it throws, or creates the job rows
queuePipelineRunResume ==
  /\ microQ = <<>>
  /\ \E id \in DOMAIN queueOps :
       /\ queueOps[id].pc = "loadConfig"
       /\ LET run == queueOps[id]
              pipeline == IF configExists(run.configPath)
                          THEN findPipeline(resolvePipelines(run.configPath),
                                            run.pipelineName)
                          ELSE <<>>
          IN  IF pipeline = <<>>
              THEN /\ queueOps' = [queueOps EXCEPT ![id].pc = "rejected"]
                   /\ jobs' = jobs
              ELSE /\ queueOps' = [queueOps EXCEPT ![id].pc = "resolved"]
                   /\ jobs' = createJobs(jobs, id, pipeline[1].jobs)
  /\ callerInChain' = FALSE
  /\ UNCHANGED <<notSched, triggers, running, pollTimer, activeJobs, execs, microQ, stopWaits, runs>>

\* processQueue after `await this.canJobRun(job)`: start the job if it can
\* run (executeJob runs up to its first await, or to an early return), then
\* go on with the loop up to the next await
processQueueResume ==
  /\ microQ # <<>>
  /\ Head(microQ).type = "pq"
  /\ LET m == Head(microQ)
         job == getJob(jobs, m.job)
         started == updateJobStatus(jobs, m.job, "running")
         pipelineRun == runs[job.pipeline_run_id]
         project == getProject(pipelineRun.project_id)
         promise == NewExec(m.job)
     IN  IF ~m.canRun
         THEN /\ microQ' = Tail(microQ)
                   \o loopToAwait(m.snapshot, m.i + 1, activeJobs, runs, jobs)
              /\ UNCHANGED <<activeJobs, execs, jobs>>
         ELSE IF project = <<>>
         THEN \* executeJob returns at once with the job failed
              /\ jobs' = updateJobStatus(started, m.job, "failure")
              /\ activeJobs' = MapSet(activeJobs, m.job, promise)
              /\ execs' = execs
              /\ microQ' = Tail(microQ)
                   \o << Microtask("settle", <<>>, 0, FALSE, promise, m.job) >>
                   \o loopToAwait(m.snapshot, m.i + 1, activeJobs', runs, jobs')
         ELSE \* executeJob is suspended in loadConfig
              /\ jobs' = started
              /\ activeJobs' = MapSet(activeJobs, m.job, promise)
              /\ execs' = MapSet(execs, promise, m.job)
              /\ microQ' = Tail(microQ)
                   \o loopToAwait(m.snapshot, m.i + 1, activeJobs', runs, jobs')
  /\ callerInChain' = (callerInChain /\ microQ' # <<>>)
  /\ UNCHANGED <<notSched, triggers, running, pollTimer, stopWaits, queueOps, runs>>

\* the promise `executeJob(job).catch(...)` of an early return settles: its
\* finally callback is queued
promiseSettles ==
  /\ microQ # <<>>
  /\ Head(microQ).type = "settle"
  /\ microQ' = Tail(microQ)
        \o << [Head(microQ) EXCEPT !.type = "finally"] >>
  /\ UNCHANGED <<notSched, triggers, running, pollTimer, activeJobs, execs, callerInChain,
                 stopWaits, queueOps, runs, jobs>>

\* promise.finally(() => this.activeJobs.delete(job.id)) of an early return
promiseFinally ==
  /\ microQ # <<>>
  /\ Head(microQ).type = "finally"
  /\ activeJobs' = MapDelete(activeJobs, Head(microQ).job)
  /\ stopWaits' = Settle(stopWaits, Head(microQ).exec)
  /\ microQ' = Tail(microQ)
  /\ callerInChain' = (callerInChain /\ microQ' # <<>>)
  /\ UNCHANGED <<notSched, triggers, running, pollTimer, execs, queueOps, runs, jobs>>

\* executeJob after loadConfig/runJob: the final status is stored, then the
\* finally callback removes the job from activeJobs
executeJobResume ==
  /\ microQ = <<>>
  /\ \E e \in DOMAIN execs, status \in {"success", "failure"} :
       /\ jobs' = updateJobStatus(jobs, execs[e], status)
       /\ activeJobs' = MapDelete(activeJobs, execs[e])
       /\ execs' = MapDelete(execs, e)
       /\ stopWaits' = Settle(stopWaits, e)
  /\ callerInChain' = FALSE
  /\ UNCHANGED <<notSched, triggers, running, pollTimer, microQ, queueOps, runs>>

\* the server process dies; the store survives, the scheduler object and every
\* pending promise do not
crash ==
  /\ running' = FALSE
  /\ pollTimer' = FALSE
  /\ activeJobs' = [k \in {} |-> 0]
  /\ execs' = [k \in {} |-> 0]
  /\ microQ' = <<>>
  /\ callerInChain' = FALSE
  /\ stopWaits' = {}
  /\ queueOps' = [id \in DOMAIN queueOps |->
                    IF queueOps[id].pc = "loadConfig"
                    THEN [queueOps[id] EXCEPT !.pc = "lost"]
                    ELSE queueOps[id]]
  /\ UNCHANGED <<notSched, triggers, runs, jobs>>

(***************************************************************************)
(* WarmPool.  The variable pool holds the object's fields (state, idleVms, *)
(* inUseVms, healthCheckTimer, replenishPromise, nextIndex) and the option *)
(* minIdle the pool was constructed with (maxCreated is the bound on       *)
(* nextIndex in the behaviour, which no statement of the pool reads), the  *)
(* calls                                                                   *)
(* that are suspended at an await on the hypervisor or the network         *)
(* (creating, destroying, replenishes, healthChecks, stops), what exists   *)
(* outside the process (hypervisor, networks) and the clock (now).  An     *)
(* await of an already settled promise only yields to microtasks, and the  *)
(* pool queues none that touch its fields, so such a continuation runs in  *)
(* the same step.  A VM's id is its index; idleVms keeps Map insertion     *)
(* order; useCount and createdAt are read by no operation and are left     *)
(* out.                                                                    *)
(***************************************************************************)
MaxIdleTime == 0     \* options.maxIdleTime, in clock readings

WarmPool(minIdle) ==
  [minIdle |-> minIdle, maxCreated |-> MaxCreated, state |-> "stopped", idleVms |-> <<>>, inUseVms |-> {},
   healthCheckTimer |-> FALSE, replenishPromise |-> FALSE, nextIndex |-> 0,
   creating |-> {}, destroying |-> {}, replenishes |-> {}, healthChecks |-> {},
   stops |-> <<>>, hypervisor |-> {}, networks |-> {}, now |-> 0,
   consoleError |-> -1,
   last |-> [op |-> "none", id |-> -1, destroy |-> FALSE, result |-> "none"]]

\* last is what the step's call or settled promise hands to the pool's caller:
\* op acquire or release, the VM id (-1: none), the destroy option, and the
\* result: returned, awaiting (suspended), or the error thrown.  consoleError
\* is the id of the VM whose failed creation the step prints with
\* console.error (-1: it prints none)
Outcome(w, op, id, destroy, result) ==
  [w EXCEPT !.last = [op |-> op, id |-> id, destroy |-> destroy, result |-> result],
            !.consoleError = -1]

Quiet(w) == Outcome(w, "none", -1, FALSE, "none")

PooledVm(id, lastUsedAt) == [id |-> id, lastUsedAt |-> lastUsedAt]

Min(a, b) == IF a < b THEN a ELSE b

IdleIds(w) == {w.idleVms[k].id : k \in DOMAIN w.idleVms}

InUseIds(w) == {v.id : v \in w.inUseVms}

totalCount(w) == Len(w.idleVms) + Cardinality(w.inUseVms)

\* a VM leaves idleVms while rounds of replenish wait for their creations:
\* each round notes it (taken, like failed, is kept for the properties only;
\* no statement of the pool reads it)
idleTaken(w) ==
  [w EXCEPT !.replenishes = {[r EXCEPT !.taken = TRUE] : r \in @}]

\* createVm up to its first await: the index is taken, the rest is pending
createVm(w, owner) ==
  [w EXCEPT !.nextIndex = @ + 1,
            !.creating = @ \cup {[id |-> w.nextIndex, owner |-> owner]}]

\* destroyVm up to its first await, for each id of ids: the entry leaves its
\* map, vmManager.destroy and releaseNetwork are pending
destroyVm(w, ids, isIdle, owner) ==
  [(IF isIdle /\ ids # {} THEN idleTaken(w) ELSE w) EXCEPT
      !.idleVms = IF isIdle THEN SelectSeq(@, LAMBDA v : v.id \notin ids) ELSE @,
      !.inUseVms = IF isIdle THEN @ ELSE {v \in @ : v.id \notin ids},
      !.destroying = @ \cup {[id |-> i, owner |-> owner] : i \in ids}]

\* stop, from "Destroy all in-use VMs" to its end
stopInUse(w) ==
  LET inUseIds == InUseIds(w)
      w1 == destroyVm(w, inUseIds, FALSE, "stop")
  IN IF inUseIds = {}
     THEN [w1 EXCEPT !.state = "stopped"]
     ELSE [w1 EXCEPT !.stops = Append(@, [stage |-> "inUse", pending |-> inUseIds])]

\* stop, from "Destroy all idle VMs" on
stopIdle(w) ==
  LET idleIds == IdleIds(w)
      w1 == destroyVm(w, idleIds, TRUE, "stop")
  IN IF idleIds = {}
     THEN stopInUse(w1)
     ELSE [w1 EXCEPT !.stops = Append(@, [stage |-> "idle", pending |-> idleIds])]

RECURSIVE stopIdleTimes(_, _)
stopIdleTimes(w, n) == IF n = 0 THEN w ELSE stopIdleTimes(stopIdle(w), n - 1)

\* the callers of stop that wait for replenishPromise go on, in call order
stopAfterReplenish(w) ==
  LET waiting == SelectSeq(w.stops, LAMBDA s : s.stage = "replenish")
      others == SelectSeq(w.stops, LAMBDA s : s.stage # "replenish")
  IN stopIdleTimes([w EXCEPT !.stops = others], Len(waiting))

\* what the caller of replenish does once the promise is fulfilled
replenishReturned(w, caller) ==
  IF caller = "start"
  THEN [w EXCEPT !.healthCheckTimer = TRUE, !.state = "running"]
  ELSE IF caller = "scheduled"
       THEN stopAfterReplenish([w EXCEPT !.replenishPromise = FALSE])
       ELSE w

\* replenish's callbacks with the error passed on in place of the catch
replenishCreatedUncaught(w, pooledVm, outcome) ==
  IF outcome = "ok"
  THEN [w EXCEPT !.idleVms = Append(@, pooledVm)]
  ELSE [w EXCEPT !.last.op = "replenish", !.last.id = pooledVm.id,
                 !.last.result = "HypervisorFailure"]

\* the then and catch callbacks replenish puts on each createVm
replenishCreated(w, pooledVm, outcome) ==
  IF outcome = "ok"
  THEN [w EXCEPT !.idleVms = Append(@, pooledVm)]
  ELSE [w EXCEPT !.consoleError = pooledVm.id]

RECURSIVE createVms(_, _, _)
createVms(w, n, owner) ==
  IF n = 0 THEN w ELSE createVms(createVm(w, owner), n - 1, owner)

replenish(w, caller) ==
  LET needed == w.minIdle - Len(w.idleVms)
      canCreate == MaxTotal - totalCount(w)
      toCreate == Min(needed, canCreate)
  IN IF toCreate <= 0
     THEN replenishReturned(w, caller)
     ELSE [createVms(w, toCreate, "replenish") EXCEPT
             !.replenishes = @ \cup
                {[caller |-> caller, needed |-> needed, toCreate |-> toCreate,
                  pending |-> w.nextIndex .. (w.nextIndex + toCreate - 1),
                  failed |-> FALSE, taken |-> FALSE]}]

scheduleReplenish(w) ==
  IF w.replenishPromise
  THEN w
  ELSE replenish([w EXCEPT !.replenishPromise = TRUE], "scheduled")

\* createVm from its first await on.  outcome names the await that throws:
\* allocateNetwork, vmManager.create or vmManager.start, or "ok"
createVmSettled(w, c, outcome) ==
  LET w1 == [w EXCEPT
               !.creating = @ \ {c},
               !.networks = IF outcome = "allocateNetwork" THEN @ ELSE @ \cup {c.id},
               !.hypervisor = IF outcome \in {"start", "ok"} THEN @ \cup {c.id} ELSE @]
      pooledVm == PooledVm(c.id, w.now)
  IN IF c.owner = "acquire"
     THEN IF outcome = "ok"
          THEN Outcome([w1 EXCEPT !.inUseVms = @ \cup {pooledVm}],
                       "acquire", c.id, FALSE, "returned")
          ELSE Outcome(w1, "acquire", c.id, FALSE, "HypervisorFailure")
     ELSE LET r == CHOOSE x \in w.replenishes : c.id \in x.pending
              left == r.pending \ {c.id}
              w2 == replenishCreated(w1, pooledVm, outcome)
          IN IF left = {}
             THEN replenishReturned([w2 EXCEPT !.replenishes = @ \ {r}], r.caller)
             ELSE [w2 EXCEPT !.replenishes =
                     (@ \ {r}) \cup {[r EXCEPT !.pending = left,
                                               !.failed = @ \/ outcome # "ok"]}]

\* destroyVm from its first await on, and what its caller does next.  outcome
\* names the await that throws: vmManager.destroy or releaseNetwork, or "ok".
\* A rejected destroyVm rejects the Promise.all of healthCheck or stop, which
\* then never runs its next statement
destroyVmSettled(w, d, outcome) ==
  LET w1 == [w EXCEPT !.destroying = @ \ {d},
                      !.hypervisor = IF outcome = "destroy" THEN @ ELSE @ \ {d.id},
                      !.networks = IF outcome = "ok" THEN @ \ {d.id} ELSE @]
      hs == {x \in w.healthChecks : d.id \in x}
      ks == {i \in DOMAIN w.stops : d.id \in w.stops[i].pending}
  IN IF d.owner = "release"
     THEN Outcome(w1, "release", d.id, FALSE,
                  IF outcome = "ok" THEN "returned" ELSE "HypervisorFailure")
     ELSE IF d.owner = "health" /\ hs # {}
          THEN LET h == CHOOSE x \in hs : TRUE
                   left == h \ {d.id}
               IN IF outcome # "ok"
                  THEN [w1 EXCEPT !.healthChecks = @ \ {h}]
                  ELSE IF left = {}
                       THEN replenish([w1 EXCEPT !.healthChecks = @ \ {h}], "health")
                       ELSE [w1 EXCEPT !.healthChecks = (@ \ {h}) \cup {left}]
          ELSE IF d.owner = "stop" /\ ks # {}
               THEN LET k == CHOOSE i \in ks : TRUE
                        stage == w.stops[k].stage
                        left == w.stops[k].pending \ {d.id}
                        without == [w1 EXCEPT !.stops =
                                      SubSeq(@, 1, k - 1) \o SubSeq(@, k + 1, Len(@))]
                    IN IF outcome # "ok"
                       THEN without
                       ELSE IF left # {}
                            THEN [w1 EXCEPT !.stops[k].pending = left]
                            ELSE IF stage = "idle"
                                 THEN stopInUse(without)
                                 ELSE [without EXCEPT !.state = "stopped"]
               ELSE w1

WarmPool_start ==
  /\ pool.state = "stopped"
  /\ pool' = replenish([Quiet(pool) EXCEPT !.state = "starting"], "start")
  /\ pool'.nextIndex <= pool.maxCreated
  /\ UNCHANGED notPool

WarmPool_stop ==
  /\ pool.state \notin {"stopped", "stopping"}
  /\ LET w == [Quiet(pool) EXCEPT !.state = "stopping", !.healthCheckTimer = FALSE]
     IN pool' = IF pool.replenishPromise
                THEN [w EXCEPT !.stops = Append(@, [stage |-> "replenish", pending |-> {}])]
                ELSE stopIdle(w)
  /\ UNCHANGED notPool

\* acquire's capacity test with > written for >=
exhaustedOffByOne(w) == totalCount(w) > MaxTotal

\* acquire: "No idle VMs available, check if we can create one"
exhausted(w) == totalCount(w) >= MaxTotal

\* acquire without "this.idleVms.delete(id)"
acquireKeepsIdle ==
  /\ pool' =
       IF pool.state # "running"
       THEN Outcome(pool, "acquire", -1, FALSE, "NotRunning")
       ELSE IF pool.idleVms # <<>>
            THEN LET pooledVm == Head(pool.idleVms)
                 IN Outcome(scheduleReplenish(
                              [idleTaken(pool) EXCEPT
                                 !.inUseVms = @ \cup {PooledVm(pooledVm.id, pool.now)}]),
                            "acquire", pooledVm.id, FALSE, "returned")
            ELSE IF exhausted(pool)
                 THEN Outcome(pool, "acquire", -1, FALSE, "PoolExhausted")
                 ELSE Outcome(createVm(pool, "acquire"),
                              "acquire", pool.nextIndex, FALSE, "awaiting")
  /\ pool'.nextIndex <= pool.maxCreated
  /\ UNCHANGED notPool

\* acquire up to its return, its throw or its await of createVm
acquire ==
  /\ pool' =
       IF pool.state # "running"
       THEN Outcome(pool, "acquire", -1, FALSE, "NotRunning")
       ELSE IF pool.idleVms # <<>>
            THEN LET pooledVm == Head(pool.idleVms)
                 IN Outcome(scheduleReplenish(
                              [idleTaken(pool) EXCEPT
                                 !.idleVms = Tail(@),
                                 !.inUseVms = @ \cup {PooledVm(pooledVm.id, pool.now)}]),
                            "acquire", pooledVm.id, FALSE, "returned")
            ELSE IF exhausted(pool)
                 THEN Outcome(pool, "acquire", -1, FALSE, "PoolExhausted")
                 ELSE Outcome(createVm(pool, "acquire"),
                              "acquire", pool.nextIndex, FALSE, "awaiting")
  /\ pool'.nextIndex <= pool.maxCreated
  /\ UNCHANGED notPool

\* release with the idle map full but for the destroy option
mustDestroyIfAsked(w, destroy) == destroy

\* release: "If requested or pool is full, destroy the VM"
mustDestroy(w, destroy) == destroy \/ Len(w.idleVms) >= MaxIdle

\* release up to its return or its await of destroyVm
release ==
  /\ \E vmId \in 0 .. (pool.maxCreated - 1), destroy \in BOOLEAN :
       IF vmId \notin InUseIds(pool)
       THEN pool' = Outcome(pool, "release", vmId, destroy, "returned")
       ELSE LET w == [pool EXCEPT !.inUseVms = {v \in @ : v.id # vmId}]
            IN pool' = IF mustDestroy(pool, destroy)
                       THEN Outcome(destroyVm(w, {vmId}, FALSE, "release"),
                                    "release", vmId, destroy, "awaiting")
                       ELSE Outcome([w EXCEPT !.idleVms = Append(@, PooledVm(vmId, pool.now))],
                                    "release", vmId, destroy, "returned")
  /\ UNCHANGED notPool

createVmSettles ==
  /\ \E c \in pool.creating, outcome \in {"ok", "allocateNetwork", "create", "start"} :
       pool' = createVmSettled(Quiet(pool), c, outcome)
  /\ pool'.nextIndex <= pool.maxCreated
  /\ UNCHANGED notPool

destroyVmSettles ==
  /\ \E d \in pool.destroying, outcome \in {"ok", "destroy", "releaseNetwork"} :
       pool' = destroyVmSettled(Quiet(pool), d, outcome)
  /\ pool'.nextIndex <= pool.maxCreated
  /\ UNCHANGED notPool

\* healthCheck's scan with >= written for >
staleIdsFromMinIdle(w) ==
  {w.idleVms[k].id : k \in
     {i \in DOMAIN w.idleVms :
        /\ i >= w.minIdle
        /\ w.now - w.idleVms[i].lastUsedAt > MaxIdleTime}}

\* healthCheck: "Find and remove stale idle VMs (beyond minIdle)"; i is
\* idleCount, the position of the entry in insertion order
staleIds(w) ==
  {w.idleVms[k].id : k \in
     {i \in DOMAIN w.idleVms :
        /\ i > w.minIdle
        /\ w.now - w.idleVms[i].lastUsedAt > MaxIdleTime}}

\* the interval timer fires
healthCheck ==
  /\ pool.healthCheckTimer
  /\ pool.state = "running"
  /\ LET w == destroyVm(Quiet(pool), staleIds(pool), TRUE, "health")
     IN pool' = IF staleIds(pool) = {}
                THEN replenish(w, "health")
                ELSE [w EXCEPT !.healthChecks = @ \cup {staleIds(pool)}]
  /\ pool'.nextIndex <= pool.maxCreated
  /\ UNCHANGED notPool

\* Date.now() moves on
clockTick ==
  /\ pool.now < MaxNow
  /\ pool' = [Quiet(pool) EXCEPT !.now = @ + 1]
  /\ UNCHANGED notPool

(***************************************************************************)
(* DAG engine.  dag.nodes is the node list given to buildDag (id ->         *)
(* dependsOn), dag.status the status of each node once built, dag.phase    *)
(* whether buildDag was called and whether it threw, dag.last the last     *)
(* call with what it returned or threw.                                    *)
(***************************************************************************)
NodeIds == {"a", "b", "c"}

\* every node list over NodeIds whose dependsOn entries name nodes of the list
\* or the unknown node "x", and the diamond a -> {b, c} -> d
DagInputs ==
  [NodeIds -> SUBSET (NodeIds \cup {"x"})]
    \cup {[n \in {"a", "b", "c", "d"} |->
             IF n = "a" THEN {} ELSE IF n = "d" THEN {"b", "c"} ELSE {"a"}]}

NoCall == [op |-> "none", id |-> "", success |-> FALSE, returned |-> {}, error |-> ""]

DagCall(op, id, success, returned, error) ==
  [op |-> op, id |-> id, success |-> success, returned |-> returned, error |-> error]

NewDag(nodes) ==
  [nodes |-> nodes, phase |-> "new", status |-> [n \in DOMAIN nodes |-> "none"],
   order |-> <<>>, layers |-> <<>>, last |-> NoCall]

NoDag == NewDag([n \in {} |-> {}])

\* three-colour depth-first search: white, grey (on the stack), black (done)
RECURSIVE visit(_, _, _)
RECURSIVE visitDeps(_, _, _)
visit(nodes, st, id) ==
  IF st.cyclic \/ st.colour[id] = "black"
  THEN st
  ELSE IF st.colour[id] = "grey"
       THEN [st EXCEPT !.cyclic = TRUE]
       ELSE LET st1 == visitDeps(nodes, [st EXCEPT !.colour[id] = "grey"], nodes[id])
            IN IF st1.cyclic THEN st1 ELSE [st1 EXCEPT !.colour[id] = "black"]

visitDeps(nodes, st, deps) ==
  IF deps = {}
  THEN st
  ELSE LET d == CHOOSE x \in deps : TRUE
       IN visitDeps(nodes, visit(nodes, st, d), deps \ {d})

\* validateDag without the search for cycles
validateDagNoCycles(nodes) ==
  IF \E n \in DOMAIN nodes : nodes[n] \ DOMAIN nodes # {}
  THEN "depends on unknown job"
  ELSE ""

\* the error validateDag throws, "" when the node list is valid
validateDag(nodes) ==
  IF \E n \in DOMAIN nodes : nodes[n] \ DOMAIN nodes # {}
  THEN "depends on unknown job"
  ELSE IF visitDeps(nodes, [colour |-> [n \in DOMAIN nodes |-> "white"], cyclic |-> FALSE],
                    DOMAIN nodes).cyclic
       THEN "Circular dependency detected"
       ELSE ""

buildDag(d) ==
  LET error == validateDag(d.nodes)
  IN IF error # ""
     THEN [d EXCEPT !.phase = "threw", !.last = DagCall("buildDag", "", FALSE, {}, error)]
     ELSE [d EXCEPT !.phase = "built",
                    !.status = [n \in DOMAIN d.nodes |->
                                  IF d.nodes[n] = {} THEN "ready" ELSE "pending"],
                    !.last = DagCall("buildDag", "", FALSE, {}, "")]

dependents(d, id) == {n \in DOMAIN d.nodes : id \in d.nodes[n]}

\* markJobRunning without the test for ready
markJobRunningUnchecked(d, id) ==
  IF id \notin DOMAIN d.nodes
  THEN [d EXCEPT !.last = DagCall("markJobRunning", id, FALSE, {}, "Job not found")]
  ELSE [d EXCEPT !.status[id] = "running",
                 !.last = DagCall("markJobRunning", id, FALSE, {}, "")]

\* markJobRunning letting a node start while it waits for its dependencies
markJobRunningFromPending(d, id) ==
  IF id \notin DOMAIN d.nodes
  THEN [d EXCEPT !.last = DagCall("markJobRunning", id, FALSE, {}, "Job not found")]
  ELSE IF d.status[id] \notin {"ready", "pending"}
       THEN [d EXCEPT !.last = DagCall("markJobRunning", id, FALSE, {}, "is not ready to run")]
       ELSE [d EXCEPT !.status[id] = "running",
                      !.last = DagCall("markJobRunning", id, FALSE, {}, "")]

markJobRunning(d, id) ==
  IF id \notin DOMAIN d.nodes
  THEN [d EXCEPT !.last = DagCall("markJobRunning", id, FALSE, {}, "Job not found")]
  ELSE IF d.status[id] # "ready"
       THEN [d EXCEPT !.last = DagCall("markJobRunning", id, FALSE, {}, "is not ready to run")]
       ELSE [d EXCEPT !.status[id] = "running",
                      !.last = DagCall("markJobRunning", id, FALSE, {}, "")]

\* the descendants of the nodes of frontier, found through dependents
RECURSIVE dependentClosure(_, _, _)
dependentClosure(d, frontier, seen) ==
  LET next == (UNION {dependents(d, n) : n \in frontier}) \ seen
  IN IF next = {} THEN seen ELSE dependentClosure(d, next, seen \cup next)

\* markJobCompleted on failure, skipping the direct dependents only
skipDirectDependents(d, id) ==
  [n \in DOMAIN d.nodes |->
     IF n \in dependents(d, id) /\ d.status[n] \in {"pending", "ready"}
     THEN "skipped"
     ELSE d.status[n]]

\* markJobCompleted on failure: the status map with every descendant that is
\* still pending or ready set to skipped
skipDependents(d, id) ==
  [n \in DOMAIN d.nodes |->
     IF n \in dependentClosure(d, {id}, {}) /\ d.status[n] \in {"pending", "ready"}
     THEN "skipped"
     ELSE d.status[n]]

\* markJobCompleted on success, releasing a dependent as soon as one of its
\* dependencies has succeeded
newlyReadyOnAny(d, id) == {n \in dependents(d, id) : d.status[n] = "pending"}

\* markJobCompleted on success: the direct dependents that are pending and
\* whose dependencies have all succeeded, id counted as success
newlyReady(d, id) ==
  {n \in dependents(d, id) :
     /\ d.status[n] = "pending"
     /\ \A dep \in d.nodes[n] : dep = id \/ d.status[dep] = "success"}

markJobCompleted(d, id, success) ==
  IF id \notin DOMAIN d.nodes
  THEN [d EXCEPT !.last = DagCall("markJobCompleted", id, success, {}, "Job not found")]
  ELSE IF success
       THEN LET ready == newlyReady(d, id)
            IN [d EXCEPT !.status = [n \in DOMAIN d.nodes |->
                                       IF n = id THEN "success"
                                       ELSE IF n \in ready THEN "ready" ELSE @[n]],
                         !.last = DagCall("markJobCompleted", id, success, ready, "")]
       ELSE [d EXCEPT !.status = [skipDependents(d, id) EXCEPT ![id] = "failure"],
                      !.last = DagCall("markJobCompleted", id, success, {}, "")]

\* cancelAllJobs sparing the ready nodes
cancelPendingJobs(d) ==
  [d EXCEPT !.status = [n \in DOMAIN d.nodes |->
                          IF @[n] = "pending" THEN "cancelled" ELSE @[n]],
            !.last = DagCall("cancelAllJobs", "", FALSE, {}, "")]

cancelAllJobs(d) ==
  [d EXCEPT !.status = [n \in DOMAIN d.nodes |->
                          IF @[n] \in {"pending", "ready"} THEN "cancelled" ELSE @[n]],
            !.last = DagCall("cancelAllJobs", "", FALSE, {}, "")]

\* getDagState: the ids of each status
getDagState(d) ==
  [st \in {"pending", "ready", "running", "success", "failure", "skipped", "cancelled"} |->
     {n \in DOMAIN d.nodes : d.status[n] = st}]

\* the order in which the nodes were given to buildDag: the Map of the
\* engine keeps it
InsertionOrder == <<"a", "b", "c", "d">>

inserted(nodes) == SelectSeq(InsertionOrder, LAMBDA n : n \in DOMAIN nodes)

Elements(seq) == {seq[k] : k \in DOMAIN seq}

\* the nodes not yet placed whose dependencies have all been placed, in
\* insertion order
available(nodes, placed) ==
  SelectSeq(inserted(nodes), LAMBDA n : n \notin placed /\ nodes[n] \subseteq placed)

\* the topological order taking the nodes as inserted, whatever they depend on
getTopologicalOrderInserted(d) == inserted(d.nodes)

\* getTopologicalOrder: the first available node, again and again
RECURSIVE topologicalOrderFrom(_, _)
topologicalOrderFrom(nodes, order) ==
  LET next == available(nodes, Elements(order))
  IN IF next = <<>> THEN order ELSE topologicalOrderFrom(nodes, Append(order, Head(next)))

getTopologicalOrder(d) == topologicalOrderFrom(d.nodes, <<>>)

\* the layers with every node in the first one
getParallelLayersFlat(d) == <<inserted(d.nodes)>>

\* getParallelLayers: all the available nodes, again and again
RECURSIVE parallelLayersFrom(_, _, _)
parallelLayersFrom(nodes, layers, placed) ==
  LET layer == available(nodes, placed)
  IN IF layer = <<>>
     THEN layers
     ELSE parallelLayersFrom(nodes, Append(layers, layer), placed \cup Elements(layer))

getParallelLayers(d) == parallelLayersFrom(d.nodes, <<>>, {})

DagTopologicalOrder ==
  /\ dag.phase = "built"
  /\ dag' = [dag EXCEPT !.order = getTopologicalOrder(dag),
                        !.last = DagCall("getTopologicalOrder", "", FALSE, {}, "")]
  /\ UNCHANGED notDag

DagParallelLayers ==
  /\ dag.phase = "built"
  /\ dag' = [dag EXCEPT !.layers = getParallelLayers(dag),
                        !.last = DagCall("getParallelLayers", "", FALSE, {}, "")]
  /\ UNCHANGED notDag

DagBuild ==
  /\ dag.phase = "new"
  /\ dag' = buildDag(dag)
  /\ UNCHANGED notDag

DagMarkRunning ==
  /\ dag.phase = "built"
  /\ \E id \in DOMAIN dag.nodes \cup {"x"} : dag' = markJobRunning(dag, id)
  /\ UNCHANGED notDag

\* the driver reports the end of a job it has started
DagMarkCompleted ==
  /\ dag.phase = "built"
  /\ \E id \in DOMAIN dag.nodes, success \in BOOLEAN :
       /\ dag.status[id] = "running"
       /\ dag' = markJobCompleted(dag, id, success)
  /\ UNCHANGED notDag

DagCancelAll ==
  /\ dag.phase = "built"
  /\ dag' = cancelAllJobs(dag)
  /\ UNCHANGED notDag

(***************************************************************************)
(* runJob.  jobRun is one call of runJob: the job's steps, the loop index   *)
(* i, the await it is suspended at (pc), the locals jobFailed, stepResults *)
(* and stepTimings, and for each step what happened to it (seen: the value *)
(* its condition returned, whether runStep was called, its exit code).     *)
(* started lists the steps given to runStep, in call order.  cancelledAt   *)
(* is the step that was running when the job was cancelled, 0 when it was  *)
(* not.                                                                    *)
(***************************************************************************)
MaxSteps == 3        \* steps of the job under test

StepNames == <<"s1", "s2", "s3", "s4">>

\* a step: its name, whether it has an id (then the id is the name), its
\* type, whether it has a condition function, and continueOnError
StepDefinitions ==
  [hasId : BOOLEAN, type : {"run", "setup"}, hasIf : BOOLEAN, continueOnError : BOOLEAN]

JobInputs == [1 .. MaxSteps -> StepDefinitions]

NewJobRun(steps) ==
  [steps |-> steps, i |-> 1, pc |-> "call", jobFailed |-> FALSE,
   stepResults |-> [n \in {} |-> 0], stepTimings |-> <<>>, started |-> <<>>,
   seen |-> [k \in DOMAIN steps |-> [cond |-> "none", exitCode |-> -1]],
   status |-> "none", cancelledAt |-> 0]

NoJobRun == NewJobRun(<<>>)

StepResult(status, outcome) == [status |-> status, outcome |-> outcome]

\* stepResults[step.id] = result, when the step has an id
setStepResult(r, k, result) ==
  IF r.steps[k].hasId
  THEN [r EXCEPT !.stepResults =
          [n \in DOMAIN @ \cup {StepNames[k]} |-> IF n = StepNames[k] THEN result ELSE @[n]]]
  ELSE r

\* the failure gate skipping every step after a failure
failureGateAll(jobFailed, step) == jobFailed

\* "Skip remaining steps if job has failed (unless continueOnError)"
failureGate(jobFailed, step) == jobFailed /\ ~step.continueOnError

\* runJob after the for loop
finish(r) ==
  [r EXCEPT !.pc = "returned", !.status = IF r.jobFailed THEN "failure" ELSE "success"]

\* the for loop from the failure gate of step i to the next await or the end;
\* checked is TRUE when the condition of step i has been dealt with
RECURSIVE loop(_, _)
loop(r, checked) ==
  IF r.i > Len(r.steps)
  THEN finish(r)
  ELSE LET step == r.steps[r.i]
       IN IF step.hasIf /\ ~checked
          THEN [r EXCEPT !.pc = "if"]
          ELSE IF failureGate(r.jobFailed, step)
               THEN loop([setStepResult(r, r.i, StepResult("skipped", "skipped")) EXCEPT
                            !.stepTimings = Append(@, [name |-> StepNames[r.i],
                                                       status |-> "skipped"]),
                            !.i = @ + 1],
                         FALSE)
               ELSE [r EXCEPT !.pc = "runStep", !.started = Append(@, r.i)]

\* exit codes runCommand reports: success, failure, killed by the timeout
ExitCodes == {0, 1, 124}

\* runStep reporting a failed step as failed whatever its continueOnError
runStepStatusIsOutcome(step, exitCode) ==
  IF step.type = "run"
  THEN LET status == IF exitCode = 0 THEN "success" ELSE "failure"
       IN StepResult(status, status)
  ELSE StepResult("success", "success")

\* runStep: the result of a step that ended with exitCode
runStep(step, exitCode) ==
  IF step.type = "run"
  THEN LET success == exitCode = 0
           status == IF success THEN "success" ELSE "failure"
       IN StepResult(IF step.continueOnError /\ ~success THEN "success" ELSE status, status)
  ELSE StepResult("success", "success")

\* runJob is called
RunJobCall ==
  /\ jobRun.pc = "call"
  /\ Len(jobRun.steps) > 0
  /\ jobRun' = loop(jobRun, FALSE)
  /\ UNCHANGED notRunner

\* the job is cancelled while a step runs: RunJobOptions carries no signal
\* and runJob, runStep and runCommand have no handler, so nothing else changes
RunJobCancel ==
  /\ jobRun.pc = "runStep"
  /\ jobRun.cancelledAt = 0
  /\ jobRun' = [jobRun EXCEPT !.cancelledAt = jobRun.i]
  /\ UNCHANGED notRunner

\* await step.if(...) returns
RunJobIfSettles ==
  /\ jobRun.pc = "if"
  /\ \E shouldRun \in BOOLEAN :
       LET r == [jobRun EXCEPT !.seen[jobRun.i].cond = IF shouldRun THEN "true" ELSE "false"]
       IN jobRun' =
            IF shouldRun
            THEN loop(r, TRUE)
            ELSE loop([setStepResult(r, r.i, StepResult("skipped", "skipped")) EXCEPT
                         !.i = @ + 1],
                      FALSE)
  /\ UNCHANGED notRunner

\* await runStep(...) returns; a setup step starts no process
RunJobStepSettles ==
  /\ jobRun.pc = "runStep"
  /\ \E exitCode \in IF jobRun.steps[jobRun.i].type = "run" THEN ExitCodes ELSE {0} :
       LET step == jobRun.steps[jobRun.i]
           result == runStep(step, exitCode)
           r == [setStepResult(jobRun, jobRun.i, result) EXCEPT
                   !.seen[jobRun.i].exitCode = exitCode,
                   !.stepTimings = Append(@, [name |-> StepNames[jobRun.i],
                                              status |-> result.status]),
                   !.jobFailed = @ \/ (result.outcome = "failure" /\ ~step.continueOnError),
                   !.i = @ + 1]
       IN jobRun' = loop(r, FALSE)
  /\ UNCHANGED notRunner

(***************************************************************************)
(* runCommand.  command is one call: whether the step has a timeout, the   *)
(* process (proc, the code it exits with by itself, the code it did exit   *)
(* with, what ended it), its two pipes (chunks written and not yet read, write end open,  *)
(* readStream returned), the timer, the locals killed and output, and the  *)
(* exit code returned.  expiredRunning records that the timer fired while  *)
(* the process was running.                                                *)
(***************************************************************************)
MaxChunks == 2       \* chunks the process writes to its pipes

Streams == {"stdout", "stderr"}

TimeoutText == "[TIMEOUT] Step exceeded timeout limit"

NewCommand(timeout, ownExit) ==
  [timeout |-> timeout, ownExit |-> ownExit, pc |-> "call", proc |-> "none",
   procExit |-> -1, endedBy |-> "none", pending |-> [st \in Streams |-> 0],
   open |-> [st \in Streams |-> FALSE], done |-> [st \in Streams |-> FALSE],
   written |-> 0, output |-> <<>>, timer |-> "none", killed |-> FALSE,
   expiredRunning |-> FALSE, exitCode |-> -1]

NoCommand == NewCommand(FALSE, 0)

CommandInputs == {NewCommand(timeout, ownExit) : timeout \in BOOLEAN, ownExit \in {0, 1}}

\* "exitCode: killed ? 124 : exitCode"
reportedExitCode(killed, exitCode) == IF killed THEN 124 ELSE exitCode

\* Bun.spawn and setTimeout, up to await Promise.all
runCommandCall ==
  /\ command.pc = "call"
  /\ command' = [command EXCEPT !.pc = "reading", !.proc = "running",
                                !.open = [st \in Streams |-> TRUE],
                                !.timer = IF command.timeout THEN "armed" ELSE "none"]
  /\ UNCHANGED notCommand

\* the process writes a chunk to one of its pipes
procWrites ==
  /\ command.proc = "running"
  /\ command.written < MaxChunks
  /\ \E st \in Streams :
       command' = [command EXCEPT !.pending[st] = @ + 1, !.written = @ + 1]
  /\ UNCHANGED notCommand

\* the process exits by itself
procExits ==
  /\ command.proc = "running"
  /\ command' = [command EXCEPT !.proc = "exited", !.procExit = command.ownExit,
                                !.endedBy = "exit"]
  /\ UNCHANGED notCommand

\* the write end of a pipe closes once the process is gone
pipeCloses ==
  /\ command.proc = "exited"
  /\ \E st \in Streams :
       /\ command.open[st]
       /\ command' = [command EXCEPT !.open[st] = FALSE]
  /\ UNCHANGED notCommand

\* the setTimeout callback; a process ended by proc.kill() leaves some
\* exit code other than 0
timerFires ==
  /\ command.timer = "armed"
  /\ \E signalled \in ExitCodes \ {0} :
       command' = [command EXCEPT
         !.timer = "fired",
         !.killed = TRUE,
         !.proc = "exited",
         !.procExit = IF command.proc = "running" THEN signalled ELSE @,
         !.endedBy = IF command.proc = "running" THEN "kill" ELSE @,
         !.expiredRunning = command.proc = "running",
         !.output = Append(@, TimeoutText)]
  /\ UNCHANGED notCommand

\* readStream: reader.read() returns a chunk
readerReads ==
  /\ command.pc = "reading"
  /\ \E st \in Streams :
       /\ ~command.done[st]
       /\ command.pending[st] > 0
       /\ command' = [command EXCEPT !.pending[st] = @ - 1, !.output = Append(@, st)]
  /\ UNCHANGED notCommand

\* readStream: reader.read() returns done; after the second one Promise.all
\* and proc.exited resolve and runCommand returns
readerDone ==
  /\ command.pc = "reading"
  /\ \E st \in Streams :
       /\ ~command.done[st]
       /\ command.pending[st] = 0
       /\ ~command.open[st]
       /\ command' =
            IF \A other \in Streams \ {st} : command.done[other]
            THEN [command EXCEPT
                    !.done[st] = TRUE,
                    !.pc = "returned",
                    !.timer = IF @ = "armed" THEN "cleared" ELSE @,
                    !.exitCode = reportedExitCode(command.killed, command.procExit)]
            ELSE [command EXCEPT !.done[st] = TRUE]
  /\ UNCHANGED notCommand

(***************************************************************************)
(* ZephyrServer and its job update callback.  server holds wsClients in    *)
(* Map insertion order, what each client has received (inbox), the status  *)
(* column of the jobs, and for each job that finished: the status runJob   *)
(* returned, the clients subscribed when it was published and the clients  *)
(* whose ws.send threw.                                                    *)
(***************************************************************************)
MaxInbox == 2        \* messages a client receives

ClientIds == {"c1", "c2"}

\* the jobs the scheduler runs, and the job ids clients subscribe to
WsJobIds == {"j1"}

SubscribedIds == {"j1", "j2"}

NotPublished == [status |-> "none", subscribers |-> {}, throwers |-> {}]

ZephyrServer ==
  [wsClients |-> <<>>,
   inbox |-> [c \in ClientIds |-> <<>>],
   jobStatus |-> [j \in WsJobIds |-> "pending"],
   statusWrites |-> [j \in WsJobIds |-> <<"pending">>],
   published |-> [j \in WsJobIds |-> NotPublished]]

WsMessage(type, jobId, status) == [type |-> type, jobId |-> jobId, status |-> status]

ConnectedIds(s) == {s.wsClients[i].id : i \in DOMAIN s.wsClients}

Subscribers(s, jobId) ==
  {s.wsClients[i].id : i \in {k \in DOMAIN s.wsClients : jobId \in s.wsClients[k].subscriptions}}

\* broadcastJobUpdate: the loop over wsClients.values(); a ws.send that throws
\* ends it
RECURSIVE broadcastJobUpdate(_, _, _, _, _)
broadcastJobUpdate(clients, inbox, jobId, status, throwers) ==
  IF Len(clients) = 0 THEN [inbox |-> inbox, thrown |-> FALSE]
  ELSE LET client == clients[1]
       IN  IF jobId \in client.subscriptions
           THEN IF client.id \in throwers
                THEN [inbox |-> inbox, thrown |-> TRUE]
                ELSE broadcastJobUpdate(
                       Tail(clients),
                       [inbox EXCEPT ![client.id] =
                          Append(@, WsMessage("job_update", jobId, status))],
                       jobId, status, throwers)
           ELSE broadcastJobUpdate(Tail(clients), inbox, jobId, status, throwers)

InboxBounded(s) == \A c \in ClientIds : Len(s.inbox[c]) <= MaxInbox

\* websocket.open
websocketOpen ==
  /\ \E c \in ClientIds \ ConnectedIds(server) :
       server' = [server EXCEPT !.wsClients = Append(@, [id |-> c, subscriptions |-> {}])]
  /\ UNCHANGED notServer

\* websocket.close
websocketClose ==
  /\ \E c \in ConnectedIds(server) :
       server' = [server EXCEPT !.wsClients = SelectSeq(@, LAMBDA client : client.id # c)]
  /\ UNCHANGED notServer

\* handleWebSocketMessage for a subscribe or unsubscribe message; a throw of
\* the acknowledging ws.send is caught
handleWebSocketMessage ==
  /\ \E c \in ConnectedIds(server), type \in {"subscribe", "unsubscribe"},
        jobId \in SubscribedIds, sent \in BOOLEAN :
       /\ server' = [server EXCEPT
            !.wsClients =
               [i \in DOMAIN @ |->
                  IF @[i].id = c
                  THEN [@[i] EXCEPT !.subscriptions =
                          IF type = "subscribe" THEN @ \cup {jobId} ELSE @ \ {jobId}]
                  ELSE @[i]],
            !.inbox[c] = IF sent THEN Append(@, WsMessage(type \o "d", jobId, "")) ELSE @]
       /\ InboxBounded(server')
  /\ UNCHANGED notServer

\* processQueue marks the job running and starts executeJob
serverJobStarts ==
  /\ \E jobId \in WsJobIds :
       /\ server.jobStatus[jobId] = "pending"
       /\ server' = [server EXCEPT !.jobStatus[jobId] = "running",
                                   !.statusWrites[jobId] = Append(@, "running")]
  /\ UNCHANGED notServer

\* executeJob after runJob returned: updateJobStatus and onJobUpdate inside
\* the try, and the catch that an exception of the callback leads to
executeJobNotifies ==
  /\ \E jobId \in WsJobIds, status \in {"success", "failure"} :
     \E throwers \in SUBSET Subscribers(server, jobId) :
       /\ server.jobStatus[jobId] = "running"
       /\ LET first == broadcastJobUpdate(server.wsClients, server.inbox, jobId, status,
                                          throwers)
              second == broadcastJobUpdate(server.wsClients, first.inbox, jobId, "failure",
                                           throwers)
          IN  server' = [server EXCEPT
                !.jobStatus[jobId] = IF first.thrown THEN "failure" ELSE status,
                !.statusWrites[jobId] =
                   IF first.thrown THEN @ \o <<status, "failure">> ELSE Append(@, status),
                !.inbox = IF first.thrown THEN second.inbox ELSE first.inbox,
                !.published[jobId] =
                   [status |-> status, subscribers |-> Subscribers(server, jobId),
                    throwers |-> throwers]]
       /\ InboxBounded(server')
  /\ UNCHANGED notServer

(***************************************************************************)
(* CLI run command.  cli is one call of run: what it is given (whether a   *)
(* config file is found and loads, the pipelines of the config, the        *)
(* --pipeline and --job options), and its locals sortedJobs, results and   *)
(* failed, the loop index i, the await it is suspended at (pc), the jobs   *)
(* given to runJob in call order (started) and the exit code.              *)
(***************************************************************************)
CliJob(name, dependsOn, condition) ==
  [name |-> name, dependsOn |-> dependsOn, condition |-> condition]

\* the conditions of jobs a, b, c: none; c runs on failure; b has a function
CliConditions ==
  { [a |-> "none", b |-> "none", c |-> "none"],
    [a |-> "none", b |-> "none", c |-> "on_failure"],
    [a |-> "none", b |-> "function", c |-> "none"] }

\* the jobs of a pipeline, declared in the order a, b, c
CliJobs(nodes, conditions) ==
  << CliJob("a", nodes["a"], conditions["a"]),
     CliJob("b", nodes["b"], conditions["b"]),
     CliJob("c", nodes["c"], conditions["c"]) >>

CliGraphs == [NodeIds -> SUBSET (NodeIds \cup {"x"})]

NewCli(configFound, configLoads, pipelines, optPipeline, optJob) ==
  [configFound |-> configFound, configLoads |-> configLoads, pipelines |-> pipelines,
   optPipeline |-> optPipeline, optJob |-> optJob,
   pc |-> "call", sortedJobs |-> <<>>, i |-> 1, results |-> [n \in {} |-> ""],
   started |-> <<>>, failed |-> FALSE, exitCode |-> -1]

NoCli == NewCli(FALSE, FALSE, <<>>, <<>>, <<>>)

\* the config of a call: one pipeline "ci" with jobs a, b, c
CliConfig(nodes, conditions) == << [name |-> "ci", jobs |-> CliJobs(nodes, conditions)] >>

NoConditions == [a |-> "none", b |-> "none", c |-> "none"]

\* the calls that cannot find what they need: no config file, a config that
\* does not load, no pipeline, an unknown --pipeline, an unknown --job
CliFailingInputs ==
  LET chain == CliConfig([a |-> {}, b |-> {"a"}, c |-> {"b"}], NoConditions)
  IN  { NewCli(FALSE, TRUE, chain, <<>>, <<>>),
        NewCli(TRUE, FALSE, chain, <<>>, <<>>),
        NewCli(TRUE, TRUE, <<>>, <<>>, <<>>),
        NewCli(TRUE, TRUE, chain, <<"nope">>, <<>>),
        NewCli(TRUE, TRUE, chain, <<>>, <<"zz">>) }

\* sortJobsByDependencies: visit; st is [sorted, visited, visiting, thrown]
RECURSIVE sortVisit(_, _, _)
RECURSIVE sortVisitDeps(_, _, _)
sortVisit(jobsToRun, st, job) ==
  IF st.thrown \/ job.name \in st.visited
  THEN st
  ELSE IF job.name \in st.visiting
       THEN [st EXCEPT !.thrown = TRUE]
       ELSE LET st1 == sortVisitDeps(jobsToRun,
                                     [st EXCEPT !.visiting = @ \cup {job.name}],
                                     job.dependsOn)
            IN  IF st1.thrown THEN st1
                ELSE [st1 EXCEPT !.visiting = @ \ {job.name},
                                 !.visited = @ \cup {job.name},
                                 !.sorted = Append(@, job)]

\* "for (const depName of job.dependsOn ?? [])": jobs not in jobMap are passed over
sortVisitDeps(jobsToRun, st, deps) ==
  IF deps = {} THEN st
  ELSE LET depName == CHOOSE d \in deps : TRUE
           dep == SelectSeq(jobsToRun, LAMBDA j : j.name = depName)
       IN  sortVisitDeps(jobsToRun,
                         IF Len(dep) = 0 THEN st ELSE sortVisit(jobsToRun, st, dep[1]),
                         deps \ {depName})

RECURSIVE sortFrom(_, _, _)
sortFrom(jobsToRun, st, k) ==
  IF k > Len(jobsToRun) THEN st
  ELSE sortFrom(jobsToRun, sortVisit(jobsToRun, st, jobsToRun[k]), k + 1)

sortJobsByDependencies(jobsToRun) ==
  sortFrom(jobsToRun, [sorted |-> <<>>, visited |-> {}, visiting |-> {}, thrown |-> FALSE], 1)

\* the dependency test taking only a failed dependency for a failed one
dependencyFailedOnly(results, dep) ==
  dep \in DOMAIN results /\ results[dep] = "failure"

\* results[dep]?.status !== "success"
dependencyNotSucceeded(results, dep) ==
  dep \notin DOMAIN results \/ results[dep] # "success"

setResult(c, name, status) ==
  [c EXCEPT !.results = [n \in DOMAIN @ \cup {name} |-> IF n = name THEN status ELSE @[n]]]

\* run after the for loop: the summary and the exit
runSummary(c) ==
  IF c.failed
  THEN [c EXCEPT !.pc = "exited", !.exitCode = 1]
  ELSE [c EXCEPT !.pc = "returned", !.exitCode = 0]

\* the for loop over sortedJobs from job i to the next await or the end;
\* checked is TRUE when the condition function of job i has returned true
RECURSIVE runLoop(_, _)
runLoop(c, checked) ==
  IF c.i > Len(c.sortedJobs)
  THEN runSummary(c)
  ELSE LET job == c.sortedJobs[c.i]
           skip == runLoop([setResult(c, job.name, "skipped") EXCEPT !.i = @ + 1], FALSE)
       IN  IF \E dep \in job.dependsOn : dependencyNotSucceeded(c.results, dep)
           THEN skip
           ELSE IF job.condition = "on_failure" /\ ~c.failed
                THEN skip
                ELSE IF job.condition = "function" /\ ~checked
                     THEN [c EXCEPT !.pc = "condition"]
                     ELSE [c EXCEPT !.pc = "runJob", !.started = Append(@, job.name)]

\* run(options) up to its first await of a condition or of runJob, or to
\* its exit; loadConfig rejecting and a circular dependency make run throw
run ==
  /\ cli.pc = "call"
  /\ cli # NoCli
  /\ LET found == IF cli.optPipeline = <<>>
                  THEN <<cli.pipelines[1]>>
                  ELSE findPipeline(cli.pipelines, cli.optPipeline[1])
         jobsToRun == IF cli.optJob = <<>>
                      THEN found[1].jobs
                      ELSE SelectSeq(found[1].jobs, LAMBDA j : j.name = cli.optJob[1])
         sort == sortJobsByDependencies(jobsToRun)
     IN  cli' =
           IF ~cli.configFound
           THEN [cli EXCEPT !.pc = "exited", !.exitCode = 1]
           ELSE IF ~cli.configLoads
                THEN [cli EXCEPT !.pc = "threw"]
                ELSE IF Len(cli.pipelines) = 0 \/ Len(found) = 0 \/ Len(jobsToRun) = 0
                     THEN [cli EXCEPT !.pc = "exited", !.exitCode = 1]
                     ELSE IF sort.thrown
                          THEN [cli EXCEPT !.pc = "threw"]
                          ELSE runLoop([cli EXCEPT !.sortedJobs = sort.sorted], FALSE)
  /\ UNCHANGED notCli

\* await job.condition(...) returns
runConditionSettles ==
  /\ cli.pc = "condition"
  /\ \E shouldRun \in BOOLEAN :
       cli' = IF shouldRun
              THEN runLoop(cli, TRUE)
              ELSE runLoop([setResult(cli, cli.sortedJobs[cli.i].name, "skipped") EXCEPT
                              !.i = @ + 1],
                           FALSE)
  /\ UNCHANGED notCli

\* await runJob(...) returns or throws
runJobSettles ==
  /\ cli.pc = "runJob"
  /\ \E outcome \in {"success", "failure", "throws"} :
       cli' = IF outcome = "throws"
              THEN [cli EXCEPT !.pc = "threw"]
              ELSE runLoop([setResult(cli, cli.sortedJobs[cli.i].name, outcome) EXCEPT
                              !.failed = @ \/ outcome = "failure",
                              !.i = @ + 1],
                           FALSE)
  /\ UNCHANGED notCli

InitWith(scenarios) ==
  /\ triggers \in scenarios
  /\ running = FALSE
  /\ pollTimer = FALSE
  /\ activeJobs = [k \in {} |-> 0]
  /\ execs = [k \in {} |-> 0]
  /\ microQ = <<>>
  /\ callerInChain = FALSE
  /\ stopWaits = {}
  /\ queueOps = [k \in {} |-> 0]
  /\ runs = [k \in {} |-> 0]
  /\ jobs = <<>>

Init == InitWith(Scenarios) /\ dag = NoDag /\ jobRun = NoJobRun /\ command = NoCommand /\ expansion = NoExpansion /\ server = ZephyrServer /\ cli = NoCli /\ pool = WarmPool(MinIdle)

Next ==
  \/ start
  \/ stop
  \/ tick
  \/ queuePipelineRun
  \/ queuePipelineRunResume
  \/ processQueueResume
  \/ promiseSettles
  \/ promiseFinally
  \/ executeJobResume
  \/ crash

Spec == Init /\ [][Next]_vars

\* the scheduler that is started and then neither stopped nor killed: the
\* event loop runs every queued microtask, the interval timer keeps firing
\* and every execution that was started returns
RunningNext ==
  \/ start
  \/ tick
  \/ queuePipelineRun
  \/ queuePipelineRunResume
  \/ processQueueResume
  \/ promiseSettles
  \/ promiseFinally
  \/ executeJobResume

RunningSpec ==
  /\ Init
  /\ [][RunningNext]_vars
  /\ WF_vars(tick)
  /\ WF_vars(processQueueResume)
  /\ WF_vars(promiseSettles)
  /\ WF_vars(promiseFinally)
  /\ WF_vars(executeJobResume)

\* the pool on its own: no pipeline run is ever triggered
PoolInit == InitWith({{}}) /\ dag = NoDag /\ jobRun = NoJobRun /\ command = NoCommand /\ expansion = NoExpansion /\ server = ZephyrServer /\ cli = NoCli /\ pool \in {WarmPool(minIdle) : minIdle \in MinIdle .. MaxIdle}

PoolNext ==
  \/ WarmPool_start
  \/ WarmPool_stop
  \/ acquire
  \/ release
  \/ createVmSettles
  \/ destroyVmSettles
  \/ healthCheck
  \/ clockTick

PoolSpec == PoolInit /\ [][PoolNext]_vars

\* a pool that is started and not stopped, with one more creation allowed
HealthCheckInit ==
  /\ InitWith({{}})
  /\ pool \in {[WarmPool(minIdle) EXCEPT !.maxCreated = MaxCreated + 1] :
                 minIdle \in MinIdle .. MaxIdle}
  /\ cli = NoCli
  /\ server = ZephyrServer
  /\ expansion = NoExpansion
  /\ command = NoCommand
  /\ dag = NoDag
  /\ jobRun = NoJobRun

HealthCheckNext ==
  \/ WarmPool_start
  \/ acquire
  \/ release
  \/ createVmSettles
  \/ destroyVmSettles
  \/ healthCheck
  \/ clockTick

HealthCheckSpec == HealthCheckInit /\ [][HealthCheckNext]_vars

\* the DAG engine on its own, driven from every node list of DagInputs
DagInit ==
  /\ InitWith({{}})
  /\ pool = WarmPool(MinIdle)
  /\ cli = NoCli
  /\ server = ZephyrServer
  /\ expansion = NoExpansion
  /\ command = NoCommand
  /\ dag \in {NewDag(nodes) : nodes \in DagInputs}
  /\ jobRun = NoJobRun

DagNext ==
  \/ DagBuild
  \/ DagMarkRunning
  \/ DagMarkCompleted
  \/ DagCancelAll
  \/ DagTopologicalOrder
  \/ DagParallelLayers

DagSpec == DagInit /\ [][DagNext]_vars

\* runJob on its own, called with every job of JobInputs
RunJobInit ==
  /\ InitWith({{}})
  /\ pool = WarmPool(MinIdle)
  /\ cli = NoCli
  /\ server = ZephyrServer
  /\ expansion = NoExpansion
  /\ command = NoCommand
  /\ dag = NoDag
  /\ jobRun \in {NewJobRun(steps) : steps \in JobInputs}

RunJobNext ==
  \/ RunJobCall
  \/ RunJobCancel
  \/ RunJobIfSettles
  \/ RunJobStepSettles

RunJobSpec == RunJobInit /\ [][RunJobNext]_vars

\* runCommand on its own, for a step with and without a timeout
RunCommandInit ==
  /\ InitWith({{}})
  /\ pool = WarmPool(MinIdle)
  /\ cli = NoCli
  /\ server = ZephyrServer
  /\ expansion = NoExpansion
  /\ dag = NoDag
  /\ jobRun = NoJobRun
  /\ command \in CommandInputs

RunCommandNext ==
  \/ runCommandCall
  \/ procWrites
  \/ procExits
  \/ pipeCloses
  \/ timerFires
  \/ readerReads
  \/ readerDone

RunCommandSpec == RunCommandInit /\ [][RunCommandNext]_vars

\* expandMatrix on its own, called with every job of MatrixJobs
MatrixInit ==
  /\ InitWith({{}})
  /\ pool = WarmPool(MinIdle)
  /\ cli = NoCli
  /\ server = ZephyrServer
  /\ dag = NoDag
  /\ jobRun = NoJobRun
  /\ command = NoCommand
  /\ expansion \in {NewExpansion(job) : job \in MatrixJobs}

MatrixNext == expandMatrixCall

MatrixSpec == MatrixInit /\ [][MatrixNext]_vars

\* the server's WebSocket clients and the job update callback on their own
ServerInit ==
  /\ InitWith({{}})
  /\ pool = WarmPool(MinIdle)
  /\ cli = NoCli
  /\ dag = NoDag
  /\ jobRun = NoJobRun
  /\ command = NoCommand
  /\ expansion = NoExpansion
  /\ server = ZephyrServer

ServerNext ==
  \/ websocketOpen
  \/ websocketClose
  \/ handleWebSocketMessage
  \/ serverJobStarts
  \/ executeJobNotifies

ServerSpec == ServerInit /\ [][ServerNext]_vars

\* the CLI run command on its own: every dependency graph with each set of
\* conditions and no option, every graph with --job c, and the failing calls
CliInit ==
  /\ InitWith({{}})
  /\ pool = WarmPool(MinIdle)
  /\ dag = NoDag
  /\ jobRun = NoJobRun
  /\ command = NoCommand
  /\ expansion = NoExpansion
  /\ server = ZephyrServer
  /\ \/ \E nodes \in CliGraphs, conditions \in CliConditions :
          cli = NewCli(TRUE, TRUE, CliConfig(nodes, conditions), <<>>, <<>>)
     \/ \E nodes \in CliGraphs :
          cli = NewCli(TRUE, TRUE, CliConfig(nodes, NoConditions), <<"ci">>, <<"c">>)
     \/ cli \in CliFailingInputs

CliNext ==
  \/ run
  \/ runConditionSettles
  \/ runJobSettles

CliSpec == CliInit /\ [][CliNext]_vars

(***************************************************************************)
(* Properties of the scheduler                                             *)
(***************************************************************************)
Rows == {jobs[i] : i \in DOMAIN jobs}

\* C1: in every reachable state the number of entries of activeJobs is at
\* most maxConcurrent
C1_ActiveJobsBounded == Size(activeJobs) <= MaxConcurrent

\* C1 witness: the cap is reached while a processQueue loop is suspended
C1_Witness == Size(activeJobs) = MaxConcurrent /\ PQCount(microQ) > 0

\* the definition of the job a row was created from
JobDefOf(row) ==
  LET pipeline == findPipeline(Pipelines, runs[row.pipeline_run_id].pipeline_name)[1]
  IN  SelectSeq(pipeline.jobs, LAMBDA d : d.name = row.name)[1]

RowsOfRun(runId) == {j \in Rows : j.pipeline_run_id = runId}

\* the rows of the jobs named in the dependsOn of the row's definition
DepRows(row) ==
  {d \in RowsOfRun(row.pipeline_run_id) : d.name \in JobDefOf(row).dependsOn}

RECURSIVE TransitiveDepRows(_)
TransitiveDepRows(row) ==
  DepRows(row) \cup UNION {TransitiveDepRows(d) : d \in DepRows(row)}

LiveExecsOf(jobId) == {e \in DOMAIN execs : execs[e] = jobId}

\* every job of the run is terminal and none is being executed
RunFinished(runId) ==
  /\ runId \in DOMAIN queueOps
  /\ queueOps[runId].pc = "resolved"
  /\ \A j \in RowsOfRun(runId) : j.status \in Terminal /\ LiveExecsOf(j.id) = {}

\* C2: no job has stored status running unless every job named in its
\* dependsOn has stored status success
C2_RunningOnlyAfterDependencies ==
  \A j \in Rows :
    j.status = "running" => \A d \in DepRows(j) : d.status = "success"

\* C3: a job leaves pending only by a compare-and-set: whenever an execution
\* of a job starts, the stored status of the job was pending, so the loser of
\* two loops that picked the same job skips it
C3_StartOnlyFromPending ==
  [][\A e \in DOMAIN execs' \ DOMAIN execs :
       getJob(jobs, execs'[e]).status = "pending"]_vars

\* C4: when a run is finished, every job with a failed job among its
\* transitive dependencies is skipped (for the diamond with B failed: D)
C4_FailureSkipsDependents ==
  \A j \in Rows :
    (RunFinished(j.pipeline_run_id)
     /\ \E d \in TransitiveDepRows(j) : d.status = "failure")
    => j.status = "skipped"

TerminalRun == {"success", "failure", "cancelled"}

\* C5: once every job of a run is terminal the run is terminal (failure if a
\* job failed, else success), and finishedAt is set exactly when it is
C5_RunBecomesTerminal ==
  \A r \in DOMAIN runs :
    /\ (runs[r].finishedAt # Null) <=> (runs[r].status \in TerminalRun)
    /\ RunFinished(r) =>
         runs[r].status = IF \E j \in RowsOfRun(r) : j.status = "failure"
                          THEN "failure" ELSE "success"

\* C6: a queuePipelineRun that failed has left no pipeline-run row and no job
\* row of that run in the store
C6_FailedQueueLeavesNoRows ==
  \A id \in DOMAIN queueOps :
    queueOps[id].pc = "rejected" => id \notin DOMAIN runs /\ RowsOfRun(id) = {}

\* C7: when queuePipelineRun succeeds the run is pending and has one pending
\* job row per expanded job instance of its pipeline, each recording the
\* dependencies of its job, with pairwise distinct ids
C7_QueueCreatesExpandedJobs ==
  [][\A id \in DOMAIN queueOps :
       (queueOps[id].pc = "loadConfig" /\ queueOps'[id].pc = "resolved") =>
         LET pipeline == findPipeline(Pipelines, queueOps[id].pipelineName)[1]
             expanded == expandPipelineJobs(pipeline.jobs)
             rows == getJobsForPipelineRun(jobs', id)
         IN  /\ runs'[id].status = "pending"
             /\ Len(rows) = Len(expanded)
             /\ \A k \in DOMAIN rows :
                  /\ rows[k].status = "pending"
                  /\ k <= Len(expanded) =>
                       rows[k].dependsOn = expanded[k].job.dependsOn
             /\ \A k, l \in DOMAIN rows : rows[k].id = rows[l].id => k = l]_vars

\* C8: once the scheduler is started (also after a crash), every job with
\* stored status running has a live execution
C8_NoOrphanRunningJob ==
  running => \A j \in Rows : j.status = "running" => LiveExecsOf(j.id) # {}

\* an executeJob call starts in this step
ExecutionStarts ==
  \/ DOMAIN execs' \ DOMAIN execs # {}
  \/ \E i \in DOMAIN jobs : jobs[i].status = "pending" /\ jobs'[i].status # "pending"

\* a suspended stop() returns in this step: the last promise it awaits settles
StopReturns ==
  /\ \E w \in stopWaits : w \cap UNION stopWaits' = {}
  /\ ~crash

\* C9: while the scheduler is stopped no job execution starts, and when a
\* suspended stop() returns activeJobs is empty and running is false
C9_StopQuiesces ==
  [][/\ (~running /\ ~running') => ~ExecutionStarts
     /\ StopReturns => (Size(activeJobs') = 0 /\ ~running')]_vars

(***************************************************************************)
(* Properties of the warm pool                                             *)
(***************************************************************************)
\* C10: under any interleaving of acquire, release, replenish and the health
\* check, the idle VMs and the in-use VMs together never number more than
\* maxTotal
C10_TotalBounded == totalCount(pool) <= MaxTotal

\* C11: under any interleaving of start, acquire, release, replenish and the
\* health check, with minIdle <= maxIdle <= maxTotal, the idle VMs never
\* number more than maxIdle
C11_IdleBounded == Len(pool.idleVms) <= MaxIdle

\* the pool's fields and resources agree in w and v, whatever the call result
\* and the console output of the step
SamePool(w, v) == [w EXCEPT !.last = v.last, !.consoleError = v.consoleError] = v

AcquireRefused ==
  acquire =>
    IF pool.state # "running"
    THEN pool'.last.result = "NotRunning" /\ SamePool(pool', pool)
    ELSE IF pool.idleVms = <<>> /\ totalCount(pool) >= MaxTotal
         THEN pool'.last.result = "PoolExhausted" /\ SamePool(pool', pool)
         ELSE /\ pool'.last.result \in {"returned", "awaiting"}
              /\ pool'.last.result = "returned" => pool'.last.id \in InUseIds(pool')

\* an acquire suspended at createVm is settled in this step
AcquireSettles ==
  /\ createVmSettles
  /\ \E c \in pool.creating \ pool'.creating : c.owner = "acquire"

\* C13 as stated: acquire fails at once, changing neither map and queuing
\* nothing, when the pool is not running or when idle is empty and the total
\* is at maxTotal; in every other case it returns a VM that is then in inUse
C13_AcquireAlwaysReturns ==
  [][/\ AcquireRefused
     /\ AcquireSettles =>
          (pool'.last.result = "returned" /\ pool'.last.id \in InUseIds(pool'))]_vars

\* C13 amended: as stated, except that an acquire which creates its VM on
\* demand fails when the creation fails, and then adds nothing to idle or
\* inUse
C13_Acquire ==
  [][/\ AcquireRefused
     /\ AcquireSettles =>
          \/ pool'.last.result = "returned" /\ pool'.last.id \in InUseIds(pool')
          \/ /\ pool'.last.result = "HypervisorFailure"
             /\ pool'.idleVms = pool.idleVms
             /\ pool'.inUseVms = pool.inUseVms]_vars

\* an acquire found the pool exhausted
C13_Witness ==
  /\ pool.last.op = "acquire"
  /\ pool.last.result = "PoolExhausted"
  /\ pool.idleVms = <<>>
  /\ totalCount(pool) >= MaxTotal

\* C14: once stop() has completed the pool is stopped, idle and inUse are
\* empty and every VM the pool created has been destroyed, and until start()
\* is called again the pool stays so, whatever was in flight when stop() was
\* called
C14_StopLeavesNothing ==
  [][/\ pool'.state = "stopped" =>
          /\ pool'.idleVms = <<>>
          /\ pool'.inUseVms = {}
          /\ pool'.hypervisor = {}
     /\ (pool.state = "stopped" /\ ~WarmPool_start) => pool'.state = "stopped"]_vars

(***************************************************************************)
(* Properties of the DAG engine                                            *)
(***************************************************************************)
Sum3(f, a, b, c) == Cardinality(f[a]) + Cardinality(f[b]) + Cardinality(f[c])

RECURSIVE Ancestors(_, _, _)
Ancestors(nodes, frontier, seen) ==
  LET next == (UNION {nodes[n] : n \in frontier \cap DOMAIN nodes}) \ seen
  IN IF next = {} THEN seen ELSE Ancestors(nodes, next, seen \cup next)

Cyclic(nodes) == \E n \in DOMAIN nodes : n \in Ancestors(nodes, {n}, {})

Dangling(nodes) == \E n \in DOMAIN nodes : nodes[n] \ DOMAIN nodes # {}

TransitiveDependents(d, id) ==
  {n \in DOMAIN d.nodes : id \in Ancestors(d.nodes, {n}, {})}

\* C17: markJobCompleted(id, false) sets the node to failure and every
\* transitive dependent that is pending or ready to skipped, and changes no
\* other node; no transitive dependent of a failed node is ever ready or
\* running
C17_FailureSkipsDependents ==
  [][/\ (dag'.last.op = "markJobCompleted" /\ ~dag'.last.success /\ dag'.last.error = "") =>
          LET id == dag'.last.id
          IN \A n \in DOMAIN dag.nodes :
               dag'.status[n] =
                 IF n = id THEN "failure"
                 ELSE IF n \in TransitiveDependents(dag, id)
                         /\ dag.status[n] \in {"pending", "ready"}
                      THEN "skipped"
                      ELSE dag.status[n]
     /\ \A f \in DOMAIN dag'.nodes : dag'.status[f] = "failure" =>
          \A n \in TransitiveDependents(dag', f) \ {f} :
            dag'.status[n] \notin {"ready", "running"}]_vars

\* a failure has skipped a node that does not depend on the failed node
\* directly
C17_Witness ==
  /\ dag.last.op = "markJobCompleted"
  /\ ~dag.last.success
  /\ \E n \in DOMAIN dag.nodes :
       /\ dag.status[n] = "skipped"
       /\ dag.last.id \notin dag.nodes[n]
       /\ n \in TransitiveDependents(dag, dag.last.id)

\* C18: markJobCompleted(id, true) sets the node to success, returns exactly
\* the direct dependents that were pending and whose dependencies are now all
\* success, and makes exactly those ready; a dependent with a dependency that
\* is not yet success stays pending
C18_SuccessUnblocksDependents ==
  [][(dag'.last.op = "markJobCompleted" /\ dag'.last.success /\ dag'.last.error = "") =>
       LET id == dag'.last.id
           unblocked == {n \in DOMAIN dag.nodes :
                           /\ id \in dag.nodes[n]
                           /\ dag.status[n] = "pending"
                           /\ \A dep \in dag.nodes[n] : dag'.status[dep] = "success"}
       IN /\ dag'.status[id] = "success"
          /\ dag'.last.returned = unblocked
          /\ \A n \in DOMAIN dag.nodes \ {id} :
               dag'.status[n] = IF n \in unblocked THEN "ready" ELSE dag.status[n]]_vars

\* a success left a dependent pending because another of its dependencies has
\* not succeeded
C18_Witness ==
  /\ dag.last.op = "markJobCompleted"
  /\ dag.last.success
  /\ \E n \in DOMAIN dag.nodes :
       /\ dag.last.id \in dag.nodes[n]
       /\ dag.status[n] = "pending"

\* C19: cancelAllJobs sets every pending or ready node to cancelled and
\* changes no other node; a cancelled node stays cancelled when a running
\* node completes, and once no node is pending or ready no node starts
C19_CancelAll ==
  [][dag.phase = "built" =>
       /\ dag'.last.op = "cancelAllJobs" =>
            \A n \in DOMAIN dag.nodes :
              dag'.status[n] = IF dag.status[n] \in {"pending", "ready"}
                               THEN "cancelled"
                               ELSE dag.status[n]
       /\ \A n \in DOMAIN dag.nodes :
            dag.status[n] = "cancelled" => dag'.status[n] = "cancelled"
       /\ (\A n \in DOMAIN dag.nodes : dag.status[n] \notin {"pending", "ready"}) =>
            \A n \in DOMAIN dag.nodes :
              /\ dag'.status[n] \notin {"pending", "ready"}
              /\ dag'.status[n] = "running" => dag.status[n] = "running"]_vars

\* a node that was running at cancelAllJobs has succeeded and its dependent
\* is still cancelled
C19_Witness ==
  /\ dag.last.op = "markJobCompleted"
  /\ dag.last.success
  /\ \E n \in DOMAIN dag.nodes :
       dag.last.id \in dag.nodes[n] /\ dag.status[n] = "cancelled"

\* runStep was called for step k
Started(k) == \E n \in DOMAIN jobRun.started : jobRun.started[n] = k

\* the loop has gone past step k
Processed(k) == k < jobRun.i

\* runStep returned for step k with outcome failure and k has no continueOnError
FailedHard(k) ==
  /\ jobRun.seen[k].exitCode # -1
  /\ runStep(jobRun.steps[k], jobRun.seen[k].exitCode).outcome = "failure"
  /\ ~jobRun.steps[k].continueOnError

FailedBefore(j) == \E k \in 1 .. j - 1 : FailedHard(k)

\* stepTimings has an entry for step k with this status
Timed(k, status) ==
  \E n \in DOMAIN jobRun.stepTimings :
    jobRun.stepTimings[n] = [name |-> StepNames[k], status |-> status]

\* steps are given to runStep in declaration order, each after the one before
\* it has returned
OneAfterAnother ==
  /\ \A m, n \in DOMAIN jobRun.started :
       m < n => jobRun.started[m] < jobRun.started[n]
  /\ \A k \in DOMAIN jobRun.steps :
       (Started(k) /\ jobRun.seen[k].exitCode = -1) => (jobRun.pc = "runStep" /\ jobRun.i = k)

Reported(k, status, outcome) ==
  /\ Timed(k, status)
  /\ \A n \in DOMAIN jobRun.stepTimings :
       jobRun.stepTimings[n].name = StepNames[k] => jobRun.stepTimings[n].status = status
  /\ jobRun.steps[k].hasId =>
       /\ StepNames[k] \in DOMAIN jobRun.stepResults
       /\ jobRun.stepResults[StepNames[k]] = StepResult(status, outcome)

\* step k ran to its end and exited with something other than 0
ExitedNonZero(k) == Started(k) /\ jobRun.seen[k].exitCode \notin {-1, 0}

\* C21: every executed step has outcome success iff its exit code is 0 and
\* status equal to outcome, except that a failed step with continueOnError has
\* status success and outcome failure; the returned job status is failure iff
\* some executed step failed without continueOnError, and success otherwise.
C21_ResultMapping ==
  /\ \A k \in DOMAIN jobRun.steps :
       (Started(k) /\ jobRun.seen[k].exitCode # -1) =>
         IF jobRun.seen[k].exitCode = 0
         THEN Reported(k, "success", "success")
         ELSE IF jobRun.steps[k].continueOnError
              THEN Reported(k, "success", "failure")
              ELSE Reported(k, "failure", "failure")
  /\ jobRun.pc = "returned" =>
       jobRun.status =
         IF \E k \in DOMAIN jobRun.steps :
              ExitedNonZero(k) /\ ~jobRun.steps[k].continueOnError
         THEN "failure"
         ELSE "success"

\* a returned job with a failed step that has continueOnError and status
\* success, whose own status is success, since nothing else failed
C21_Witness ==
  /\ jobRun.pc = "returned"
  /\ jobRun.status = "success"
  /\ \E k \in DOMAIN jobRun.steps :
       /\ ExitedNonZero(k)
       /\ jobRun.steps[k].continueOnError
       /\ jobRun.steps[k].hasId
       /\ Reported(k, "success", "failure")

\* C22: a step whose process is running when its timer expires is terminated,
\* completes with exit code 124 (so outcome failure) and has the timeout text
\* as the suffix of its output; a step whose process exited before the timer
\* expired reports the exit code of the process.
C22_Timeout ==
  /\ command.expiredRunning => command.endedBy = "kill"
  /\ command.pc = "returned" =>
       IF command.expiredRunning
       THEN /\ command.exitCode = 124
            /\ command.output # <<>>
            /\ command.output[Len(command.output)] = TimeoutText
       ELSE command.exitCode = command.ownExit

\* C23: when the job is cancelled while a step runs, no later step is started
\* and, once the job has returned, every remaining step is marked skipped and
\* the job was not reported successful.
C23_CancelStopsJob ==
  jobRun.cancelledAt > 0 =>
    \A j \in DOMAIN jobRun.steps :
      j > jobRun.cancelledAt =>
        /\ ~Started(j)
        /\ jobRun.pc = "returned" =>
             /\ jobRun.status # "success"
             /\ \/ Timed(j, "skipped")
                \/ /\ jobRun.steps[j].hasId
                   /\ StepNames[j] \in DOMAIN jobRun.stepResults
                   /\ jobRun.stepResults[StepNames[j]].status = "skipped"

\* a combination as the map from its keys to its values
AsMap(combo) ==
  [key \in {combo[i][1] : i \in DOMAIN combo} |-> Get(combo, key)[1]]

\* the number of combinations of the declared dimensions
RECURSIVE ProductSize(_)
ProductSize(declared) ==
  IF Len(declared) = 0 THEN 1 ELSE Len(declared[1][2]) * ProductSize(Tail(declared))

\* the k-th combination (from 0) of the Cartesian product of the declared
\* dimensions, the first declared dimension varying slowest
ProductAt(declared, k) ==
  [key \in {declared[d][1] : d \in DOMAIN declared} |->
     LET d == CHOOSE d \in DOMAIN declared : declared[d][1] = key
         inner == ProductSize(SubSeq(declared, d + 1, Len(declared)))
     IN  declared[d][2][((k \div inner) % Len(declared[d][2])) + 1]]

ProductOf(declared) == [k \in 1 .. ProductSize(declared) |-> ProductAt(declared, k - 1)]

\* the matrix of the job, and its exclusions and inclusions
MatrixOf(job) == job.matrix[1]

ExcludeOf(job) ==
  IF "exclude" \in DOMAIN MatrixOf(job) THEN MatrixOf(job).exclude ELSE <<>>

IncludeOf(job) ==
  IF "include" \in DOMAIN MatrixOf(job) THEN MatrixOf(job).include ELSE <<>>

\* the combinations of the instances returned
ResultMaps == [k \in DOMAIN expansion.result |-> AsMap(expansion.result[k].matrix[1].values)]

\* C24: for a matrix without exclude and include expandMatrix returns exactly
\* the Cartesian product of matrix.values, without duplicates, the first
\* declared key outermost and each dimension in listed order; a job without a
\* matrix gives one instance with matrix null and instanceId = displayName =
\* the job's name.
C24_CartesianProduct ==
  expansion.pc = "returned" =>
    IF expansion.job.matrix = NoMatrix
    THEN expansion.result =
           << [job |-> expansion.job, matrix |-> <<>>, instanceId |-> expansion.job.name,
               displayName |-> expansion.job.name] >>
    ELSE (ExcludeOf(expansion.job) = <<>> /\ IncludeOf(expansion.job) = <<>>) =>
           /\ ResultMaps = ProductOf(MatrixOf(expansion.job).values)
           /\ \A m, n \in DOMAIN expansion.result :
                m # n => expansion.result[m].matrix[1].values # expansion.result[n].matrix[1].values

\* the combination (a map) has every key/value pair of the partial one
MapMatches(map, partial) ==
  \A i \in DOMAIN partial :
    partial[i][1] \in DOMAIN map /\ map[partial[i][1]] = partial[i][2]

\* the inclusion with the dimensions it leaves out set to their first value
Filled(declared, inclusion) ==
  [key \in {declared[d][1] : d \in DOMAIN declared}
           \cup {inclusion[i][1] : i \in DOMAIN inclusion} |->
     IF \E i \in DOMAIN inclusion : inclusion[i][1] = key
     THEN Get(inclusion, key)[1]
     ELSE Get(declared, key)[1][1]]

\* present, followed by one combination for each inclusion that nothing
\* already present matches
RECURSIVE WithInclusions(_, _, _)
WithInclusions(present, include, declared) ==
  IF Len(include) = 0 THEN present
  ELSE WithInclusions(
         IF \E k \in DOMAIN present : MapMatches(present[k], include[1])
         THEN present
         ELSE Append(present, Filled(declared, include[1])),
         Tail(include), declared)

\* the product combinations that match no exclusion, in product order
Kept(job) ==
  SelectSeq(ProductOf(MatrixOf(job).values),
            LAMBDA map : \A e \in DOMAIN ExcludeOf(job) : ~MapMatches(map, ExcludeOf(job)[e]))

\* C25: expandMatrix returns the product combinations that match no
\* exclusion, in product order, followed by one appended combination for each
\* inclusion that no combination already present matches on every key the
\* inclusion specifies, so the count is the product size minus the excluded
\* combinations plus the newly added inclusions.
C25_ExcludeInclude ==
  (expansion.pc = "returned" /\ expansion.job.matrix # NoMatrix) =>
    LET job == expansion.job
        expected == WithInclusions(Kept(job), IncludeOf(job), MatrixOf(job).values)
    IN  /\ ResultMaps = expected
        /\ Len(expansion.result) =
             ProductSize(MatrixOf(job).values)
               - (ProductSize(MatrixOf(job).values) - Len(Kept(job)))
               + (Len(expected) - Len(Kept(job)))

\* C26: a published job update reaches every client subscribed to the job
\* whose own delivery did not fail, whatever happened to the other deliveries,
\* and the job's recorded status stays the one runJob returned.
C26_PublishIsolatesFailures ==
  \A jobId \in WsJobIds :
    LET p == server.published[jobId]
    IN  p.status # "none" =>
          /\ server.jobStatus[jobId] = p.status
          /\ \A c \in p.subscribers \ p.throwers :
               \E n \in DOMAIN server.inbox[c] :
                 server.inbox[c][n] = WsMessage("job_update", jobId, p.status)

\* the pipeline and the jobs the call selects, as optional values
CliPipeline ==
  IF Len(cli.pipelines) = 0 THEN <<>>
  ELSE IF cli.optPipeline = <<>> THEN <<cli.pipelines[1]>>
       ELSE findPipeline(cli.pipelines, cli.optPipeline[1])

CliMissing ==
  \/ ~cli.configFound
  \/ Len(CliPipeline) = 0
  \/ /\ cli.optJob # <<>>
     /\ \A k \in DOMAIN CliPipeline[1].jobs : CliPipeline[1].jobs[k].name # cli.optJob[1]

CliStarted(name) == \E n \in DOMAIN cli.started : cli.started[n] = name

\* runJob has returned this status for the job
CliFinished(name, status) ==
  /\ CliStarted(name)
  /\ name \in DOMAIN cli.results
  /\ cli.results[name] = status

C28_OneReplenish == Cardinality(pool.replenishes) <= 1

\* the ids whose destruction is under way
DestroyingIds(w) == {d.id : d \in w.destroying}

\* the round of replenish that waits for the creation of VM id
RoundOf(w, id) == CHOOSE r \in w.replenishes : id \in r.pending

\* the creation of VM id is the last one its round waits for
RoundEnds(w, id) == RoundOf(w, id).pending = {id}

\* a stop() that waited for replenishPromise goes on when the round of VM id
\* ends
StopGoesOn(w, id) ==
  /\ RoundEnds(w, id)
  /\ RoundOf(w, id).caller = "scheduled"
  /\ \E k \in DOMAIN w.stops : w.stops[k].stage = "replenish"

\* C29: a VM creation that fails during replenish hands no error to a caller
\* of the pool, leaves the idle and in-use VMs and the state of the pool as
\* they are (start, once its round has ended, goes on to running), and when
\* it is the last creation of its round the round is over and the marker of
\* a scheduled replenish is cleared; a VM created by replenish is in idle
C29_ReplenishAbsorbsFailure ==
  [][/\ pool'.consoleError # -1 =>
          LET id == pool'.consoleError
              r == RoundOf(pool, id)
          IN /\ pool'.last.result = "none"
             /\ IdleIds(pool) \subseteq IdleIds(pool') \cup DestroyingIds(pool')
             /\ ~StopGoesOn(pool, id) =>
                  /\ pool'.idleVms = pool.idleVms
                  /\ pool'.inUseVms = pool.inUseVms
                  /\ pool'.state = IF RoundEnds(pool, id) /\ r.caller = "start"
                                   THEN "running"
                                   ELSE pool.state
             /\ IF RoundEnds(pool, id)
                THEN /\ r \notin pool'.replenishes
                     /\ r.caller = "scheduled" => ~pool'.replenishPromise
                     /\ r.caller = "start" => pool'.healthCheckTimer
                ELSE pool'.replenishes =
                       (pool.replenishes \ {r}) \cup
                          {[r EXCEPT !.pending = @ \ {id}, !.failed = TRUE]}
     /\ \A c \in pool.creating \ pool'.creating :
          (c.owner = "replenish" /\ pool'.consoleError = -1) =>
             c.id \in IdleIds(pool') \cup DestroyingIds(pool')]_vars

\* start asked for two VMs: the creation of one has just failed, the other
\* is in idle and the pool is running
C29_Witness ==
  /\ pool.consoleError # -1
  /\ pool.minIdle = 2
  /\ pool.nextIndex = 2
  /\ pool.state = "running"
  /\ pool.healthCheckTimer
  /\ pool.replenishes = {}
  /\ Len(pool.idleVms) = 1
  /\ IdleIds(pool) \cup {pool.consoleError} = {0, 1}

\* the entry of VM id lies after the first minIdle entries of idle and has
\* been idle for longer than maxIdleTime
StaleBeyondMinIdle(w, id) ==
  \E i \in DOMAIN w.idleVms :
     /\ w.idleVms[i].id = id
     /\ i > w.minIdle
     /\ w.now - w.idleVms[i].lastUsedAt > MaxIdleTime

\* what a health check does to the maps: the VMs that leave idle are stale
\* entries beyond the first minIdle and are the ones it destroys, the first
\* minIdle entries and the in-use VMs stay; the destructions it waits for
\* touch no in-use VM and take nothing from idle
HealthCheckScan ==
  /\ healthCheck =>
       LET gone == IdleIds(pool) \ IdleIds(pool')
       IN /\ \A id \in gone : StaleBeyondMinIdle(pool, id)
          /\ pool'.destroying \ pool.destroying = {[id |-> id, owner |-> "health"] : id \in gone}
          /\ pool'.inUseVms = pool.inUseVms
          /\ \A i \in DOMAIN pool.idleVms :
               i <= pool.minIdle => (i \in DOMAIN pool'.idleVms /\ pool'.idleVms[i] = pool.idleVms[i])
  /\ \A d \in pool.destroying \ pool'.destroying :
       d.owner = "health" =>
          /\ pool'.inUseVms = pool.inUseVms
          /\ pool'.idleVms = pool.idleVms

\* the replenish computed that maxTotal leaves room for all the VMs needed
CapacityAvailable(w) == MaxTotal - totalCount(w) >= w.minIdle - Len(w.idleVms)

\* round r of replenish is over after the step
RoundOver(r) == \A x \in pool'.replenishes : x.pending \cap r.pending = {}

\* the rounds a health check started that end with the step, all their
\* creations having succeeded and maxTotal having left room for all needed
HealthRoundsDone ==
  {r \in pool.replenishes :
     /\ r.caller = "health"
     /\ RoundOver(r)
     /\ ~r.failed
     /\ pool'.consoleError \notin r.pending
     /\ r.toCreate = r.needed}

\* a health check with nothing to destroy whose replenish returns at once
HealthCheckReturns ==
  /\ healthCheck
  /\ staleIds(pool) = {}
  /\ pool'.replenishes = pool.replenishes

\* C30 as stated: the scan of the health check, and |idle| >= minIdle
\* whenever its replenish completes with no creation failure and capacity
\* available
C30_HealthCheckRestoresMinIdle ==
  [][/\ HealthCheckScan
     /\ (HealthCheckReturns /\ CapacityAvailable(pool)) =>
          Len(pool'.idleVms) >= pool'.minIdle
     /\ \A r \in HealthRoundsDone : Len(pool'.idleVms) >= pool'.minIdle]_vars

\* C30: a health check destroys only idle VMs that lie after the first
\* minIdle entries of idle in insertion order and whose idle time exceeds
\* maxIdleTime; it never touches an in-use VM and never destroys any of the
\* first minIdle idle entries; after its replenish completes, with no
\* creation failure, capacity available and no VM taken out of idle while it
\* ran, |idle| >= minIdle
C30_HealthCheck ==
  [][/\ HealthCheckScan
     /\ (HealthCheckReturns /\ CapacityAvailable(pool)) =>
          Len(pool'.idleVms) >= pool'.minIdle
     /\ \A r \in HealthRoundsDone :
          ~r.taken => Len(pool'.idleVms) >= pool'.minIdle]_vars

\* a health check found a stale entry after the first minIdle entries of
\* idle and is destroying it; the first minIdle entries are still in idle
C30_Witness ==
  /\ pool.state = "running"
  /\ pool.healthChecks # {}
  /\ \E d \in pool.destroying : d.owner = "health"
  /\ Len(pool.idleVms) = pool.minIdle
  /\ pool.inUseVms # {}

(***************************************************************************)
(* Further properties of the DAG engine                                    *)
(***************************************************************************)
\* C31: markJobRunning(id) succeeds only when the status of node id is
\* ready, and then sets it to running and no other status; for a node in any
\* other status and for an unknown id it fails and the status of every node
\* stays as it was
C31_MarkRunning ==
  [][(dag'.last.op = "markJobRunning" /\ DagMarkRunning) =>
       LET id == dag'.last.id
       IN IF id \in DOMAIN dag.nodes /\ dag.status[id] = "ready"
          THEN /\ dag'.last.error = ""
               /\ dag'.status = [dag.status EXCEPT ![id] = "running"]
          ELSE /\ dag'.last.error # ""
               /\ dag'.status = dag.status]_vars

\* markJobRunning has just refused a node that is running, while another
\* node is still pending
C31_Witness ==
  /\ dag.last.op = "markJobRunning"
  /\ dag.last.error = "is not ready to run"
  /\ dag.last.id \in DOMAIN dag.nodes
  /\ dag.status[dag.last.id] = "running"
  /\ \E n \in DOMAIN dag.nodes : dag.status[n] = "pending"

\* the position of node n in the sequence order
IndexIn(order, n) == CHOOSE k \in DOMAIN order : order[k] = n

\* order holds every node of the list once and every node after all of its
\* dependencies
LinearExtension(nodes, order) ==
  /\ Len(order) = Cardinality(DOMAIN nodes)
  /\ Elements(order) = DOMAIN nodes
  /\ \A n \in DOMAIN nodes : \A dep \in nodes[n] : IndexIn(order, dep) < IndexIn(order, n)

\* a node stands before one that was inserted earlier only where the earlier
\* one still waits for a dependency
TiesByInsertion(nodes, order) ==
  \A i, j \in DOMAIN order :
     (i < j /\ IndexIn(inserted(nodes), order[j]) < IndexIn(inserted(nodes), order[i])) =>
        \E dep \in nodes[order[j]] : IndexIn(order, dep) >= i

\* C32: getTopologicalOrder returns every node exactly once, every node
\* after all of its dependencies, and among the nodes that could come next
\* the one inserted first
C32_TopologicalOrder ==
  dag.last.op = "getTopologicalOrder" =>
    /\ LinearExtension(dag.nodes, dag.order)
    /\ TiesByInsertion(dag.nodes, dag.order)

\* the order of a list in which the node inserted first depends on the node
\* inserted last, and the node between them on nothing
C32_Witness ==
  /\ dag.last.op = "getTopologicalOrder"
  /\ DOMAIN dag.nodes = {"a", "b", "c"}
  /\ dag.nodes["a"] = {"c"}
  /\ dag.nodes["b"] = {}
  /\ dag.order = <<"b", "c", "a">>

\* the layers as one sequence
RECURSIVE Concat(_)
Concat(layers) == IF layers = <<>> THEN <<>> ELSE Head(layers) \o Concat(Tail(layers))

\* the layer of node n
LayerOf(layers, n) == CHOOSE k \in DOMAIN layers : n \in Elements(layers[k])

\* C33: getParallelLayers puts every node in exactly one layer, no layer
\* holds two nodes one of which depends on the other, directly or through
\* other nodes, the dependencies of every node lie in strictly earlier
\* layers, and the layers one after the other are a topological order
C33_ParallelLayers ==
  dag.last.op = "getParallelLayers" =>
    /\ Len(Concat(dag.layers)) = Cardinality(DOMAIN dag.nodes)
    /\ Elements(Concat(dag.layers)) = DOMAIN dag.nodes
    /\ \A k \in DOMAIN dag.layers : dag.layers[k] # <<>>
    /\ \A k \in DOMAIN dag.layers : \A n, m \in Elements(dag.layers[k]) :
         m \notin Ancestors(dag.nodes, {n}, {})
    /\ \A n \in DOMAIN dag.nodes : \A dep \in dag.nodes[n] :
         LayerOf(dag.layers, dep) < LayerOf(dag.layers, n)
    /\ LinearExtension(dag.nodes, Concat(dag.layers))

\* the layers of the diamond: its root, the two nodes that depend on it, the
\* node that depends on both
C33_Witness ==
  /\ dag.last.op = "getParallelLayers"
  /\ DOMAIN dag.nodes = {"a", "b", "c", "d"}
  /\ dag.layers = <<(<<"a">>), <<"b", "c">>, (<<"d">>)>>

(***************************************************************************)
(* Further properties of runJob                                            *)
(***************************************************************************)
\* C34: a step whose condition returned false is never given to runStep and
\* is reported as skipped in the timings, so that the result of the job
\* carries exactly one timing entry for each step, in step order
C34_OneTimingPerStep ==
  jobRun.pc = "returned" =>
    /\ \A k \in DOMAIN jobRun.steps :
         jobRun.seen[k].cond = "false" => (~Started(k) /\ Timed(k, "skipped"))
    /\ Len(jobRun.stepTimings) = Len(jobRun.steps)
    /\ \A k \in DOMAIN jobRun.stepTimings : jobRun.stepTimings[k].name = StepNames[k]


(***************************************************************************)
(* Further properties of the server's WebSocket clients.                   *)
(***************************************************************************)
\* the job_update messages for jobId that a step appends to the inbox of c
UpdatesGained(c, jobId) ==
  {n \in DOMAIN server'.inbox[c] :
     /\ n > Len(server.inbox[c])
     /\ server'.inbox[c][n].type = "job_update"
     /\ server'.inbox[c][n].jobId = jobId}

\* a step in which executeJob publishes the result of jobId
Broadcasts(jobId) ==
  /\ server.jobStatus[jobId] = "running"
  /\ server'.jobStatus[jobId] \in {"success", "failure"}

SubscriptionsOf(s, c) ==
  UNION {s.wsClients[i].subscriptions : i \in {k \in DOMAIN s.wsClients : s.wsClients[k].id = c}}

\* a step that leaves the connections as they are changes the subscriptions
\* of at most one client
OneClientChanges ==
  ConnectedIds(server') = ConnectedIds(server) =>
    \A c1, c2 \in ClientIds :
      (/\ SubscriptionsOf(server', c1) # SubscriptionsOf(server, c1)
       /\ SubscriptionsOf(server', c2) # SubscriptionsOf(server, c2)) => c1 = c2

\* C35: a broadcast for job j puts a job_update into the inbox of a client if
\* and only if the client is connected and subscribed to j at that moment (so
\* none after an unsubscribe or a close; a client whose own ws.send throws is
\* not counted), and a subscribe or unsubscribe of one client leaves the
\* subscriptions of every other client alone.
C35_UpdateIffSubscribed ==
  [][/\ \A jobId \in WsJobIds, c \in ClientIds :
          /\ UpdatesGained(c, jobId) # {} => (Broadcasts(jobId) /\ c \in Subscribers(server, jobId))
          /\ (/\ Broadcasts(jobId)
              /\ c \in Subscribers(server, jobId) \ server'.published[jobId].throwers) =>
               UpdatesGained(c, jobId) # {}
      /\ OneClientChanges]_vars

\* the part of C35 that holds: updates go to subscribed clients only, and a
\* message of one client changes no other client's subscriptions
UpdateOnlyIfSubscribed ==
  [][/\ \A jobId \in WsJobIds, c \in ClientIds :
          UpdatesGained(c, jobId) # {} => (Broadcasts(jobId) /\ c \in Subscribers(server, jobId))
      /\ OneClientChanges]_vars

\* with no ws.send throwing, every subscribed client receives the update
UpdateIfSubscribedUnlessThrown ==
  [][\A jobId \in WsJobIds, c \in ClientIds :
       (/\ Broadcasts(jobId)
        /\ c \in Subscribers(server, jobId)
        /\ server'.published[jobId].throwers = {}) =>
          UpdatesGained(c, jobId) # {}]_vars


(***************************************************************************)
(* Further properties of the stored job status.                            *)
(***************************************************************************)
\* one write of a job's status after another: pending to running, running to
\* a terminal status, or a terminal status written again unchanged
Forward(from, to) ==
  \/ from = "pending" /\ to = "running"
  \/ from = "running" /\ to \in {"success", "failure"}
  \/ from \in {"success", "failure"} /\ to = from

\* C36: the statuses written to a job's row only move forward along pending,
\* running, then success or failure: after a terminal status was written no
\* later write (the catch after an exception of the observer callback
\* included) puts a different status there or starts the job again.
C36_StatusMovesForward ==
  \A jobId \in WsJobIds :
    LET w == server.statusWrites[jobId]
    IN  \A k \in 1 .. (Len(w) - 1) : Forward(w[k], w[k + 1])

\* the same for the rows of the scheduler's store, step by step
JobRowsMoveForward ==
  [][\A i \in DOMAIN jobs :
       (i \in DOMAIN jobs' /\ jobs'[i].status # jobs[i].status) =>
          Forward(jobs[i].status, jobs'[i].status)]_vars


(***************************************************************************)
(* Progress of the scheduler.                                              *)
(***************************************************************************)
\* the ids of the job rows that the trigger requests can create
QueuedJobIds == {"r1-A", "r1-B", "r1-C", "r1-D", "r1-L", "r2-L"}

RowsOf(id) == {i \in DOMAIN jobs : jobs[i].id = id}

PendingRow(id) == \E i \in RowsOf(id) : jobs[i].status = "pending"

TerminalRow(id) == \E i \in RowsOf(id) : jobs[i].status \in Terminal

\* C37: in a scheduler that keeps running and whose executions all return,
\* every job row that is pending is eventually started and reaches a terminal
\* status, whatever the fetch limit of the tick and the readiness check let
\* through in one tick.
C37_PendingJobsFinish ==
  \A id \in QueuedJobIds : (running /\ PendingRow(id)) ~> TerminalRow(id)

\* the four jobs of the diamond run, more than maxConcurrent, have all
\* finished under a running scheduler
C37_Witness ==
  /\ running
  /\ Len(jobs) = 4
  /\ \A i \in DOMAIN jobs : jobs[i].status \in Terminal


(***************************************************************************)
(* Further properties of the WarmPool.                                     *)
(***************************************************************************)
\* each map holds a VM id once, and no id is in both
MapsDisjoint(w) ==
  /\ IdleIds(w) \cap InUseIds(w) = {}
  /\ Cardinality(IdleIds(w)) = Len(w.idleVms)
  /\ Cardinality(InUseIds(w)) = Cardinality(w.inUseVms)

\* the step hands the VM id to a caller of acquire
AcquireReturns(id) ==
  /\ pool'.last.op = "acquire"
  /\ pool'.last.result = "returned"
  /\ pool'.last.id = id

\* a VM leaves inUseVms through release (to idleVms or to destroyVm) or
\* through stop
LeavesInUse(id) ==
  \/ /\ pool'.last.op = "release"
     /\ pool'.last.id = id
  \/ \E d \in pool'.destroying : d.id = id /\ d.owner = "stop"

\* C38: no VM id is in both idleVms and inUseVms; the VM that acquire returns
\* was not in use before the call and is in use after it, so it is not handed
\* out again before a release; and the health check destroys no VM that is in
\* use.
C38_AcquiredIsExclusive ==
  [][/\ MapsDisjoint(pool) /\ MapsDisjoint(pool')
     /\ \A id \in 0 .. (pool.maxCreated - 1) :
          /\ AcquireReturns(id) => (id \notin InUseIds(pool) /\ id \in InUseIds(pool'))
          /\ (id \in InUseIds(pool) /\ id \notin InUseIds(pool')) => LeavesInUse(id)
     /\ \A d \in pool'.destroying :
          d.owner = "health" => (d.id \notin InUseIds(pool) /\ d.id \notin InUseIds(pool'))]_vars

\* acquire has just returned a second VM while the first is still in use
C38_Witness ==
  /\ pool.last.op = "acquire"
  /\ pool.last.result = "returned"
  /\ Cardinality(InUseIds(pool)) = 2
  /\ pool.last.id \in InUseIds(pool)

\* a health check is destroying a stale idle VM while another VM is in use
HealthCheckDestroysBesideInUse ==
  /\ InUseIds(pool) # {}
  /\ \E d \in pool.destroying : d.owner = "health"

\* C39: every network the pool holds belongs to a VM that is tracked in
\* idleVms or inUseVms or that destroyVm is taking down: a creation that
\* failed after allocateNetwork has given its network back, and a destroyed
\* VM's network is released.
C39_NoNetworkOutlivesVm ==
  pool.networks \subseteq
    (IdleIds(pool) \cup InUseIds(pool) \cup {d.id : d \in pool.destroying})


(***************************************************************************)
(* Further properties of expandMatrix.                                     *)
(***************************************************************************)
InstanceIdsDistinct ==
  \A m, n \in DOMAIN expansion.result :
    m # n => expansion.result[m].instanceId # expansion.result[n].instanceId

\* matrix.index is the 0-based position of the instance in the result
IndexIsPosition ==
  \A k \in DOMAIN expansion.result :
    expansion.result[k].matrix # <<>> => expansion.result[k].matrix[1].index = k - 1

\* C40: when hasMatrix(job) is false (no matrix, or a matrix without value
\* dimensions) expandMatrix returns exactly one instance, with matrix null;
\* the instanceIds of the instances it returns are pairwise distinct and the
\* matrix.index of each instance is its position in the result.
C40_NoJobDisappears ==
  expansion.pc = "returned" =>
    /\ ~hasMatrix(expansion.job) =>
         (Len(expansion.result) = 1 /\ expansion.result[1].matrix = <<>>)
    /\ InstanceIdsDistinct
    /\ IndexIsPosition

\* the part of C40 about the instances that are returned
InstancesUnambiguous ==
  expansion.pc = "returned" => (InstanceIdsDistinct /\ IndexIsPosition)

====
